---- MODULE Spec2Model ----
(***************************************************************************)
(* Model of json-reshape.js (src/unnamed/part_001): the structural         *)
(* projection engine (typeofEx, projectObject, projectArray,               *)
(* getModelMatcher, the match / makeMatch / valueTransforms / unboundMerge *)
(* namespaces and projectToModel).                                         *)
(*                                                                         *)
(* JavaScript values are tagged records [t, v]: t is the value's kind (the *)
(* answer of typeofEx) and v its payload.  An object is the sequence of    *)
(* its <<key, value>> entries in insertion order, an array the sequence of *)
(* its elements.  A function value carries the name of the code it runs    *)
(* and what its closure captured.  A thrown Error is the value Err(msg);   *)
(* every caller hands it on unchanged, which is how an uncaught exception  *)
(* unwinds the stack.                                                      *)
(***************************************************************************)
EXTENDS Integers, Sequences, FiniteSets, TLC

VARIABLES pc, call, data, model, nameGiven, transform, pad, result, boundMerge, target,
          mergeLog,
          argv, opts, transformations, files, filesBefore, saved, runEvents, runThrown

\* the engine's calls: arguments, result, and a bound merge function with the
\* target it is invoked on
engineVars ==
  <<call, data, model, nameGiven, transform, pad, result, boundMerge, target, mergeLog>>

\* the command line: the argument list, the options it was written from, and
\* what parseArguments made of it
parseVars == <<argv, opts, transformations>>

\* the file system: the files that exist, each with its content; the files as
\* they were before the last call; and the calls of saveJson made so far
fileVars == <<files, filesBefore, saved>>

\* what a run of the application did: its events in order, and the message of
\* the error that ended it ("" for none)
runVars == <<runEvents, runThrown>>

cliVars == <<parseVars, fileVars, runVars>>

vars == <<pc, engineVars, cliVars>>

----------------------------------------------------------------------------
(* JavaScript values *)

Undef == [t |-> "undefined", v |-> "undefined"]
Null == [t |-> "null", v |-> "null"]
Str(s) == [t |-> "string", v |-> s]
Num(n) == [t |-> "number", v |-> n]
Bool(b) == [t |-> "boolean", v |-> b]
Arr(elems) == [t |-> "array", v |-> elems]
Obj(entries) == [t |-> "object", v |-> entries]
Fn(code) == [t |-> "function", v |-> code]
Err(msg) == [t |-> "error", v |-> msg]

IsErr(x) == x.t = "error"

\* String(i) for an array index
IndexKey(i) == CASE i = 0 -> "0" [] i = 1 -> "1" [] i = 2 -> "2" [] i = 3 -> "3"

\* Object identity.  An object or array that exists before a call carries a
\* field ref naming it; the objects and arrays a call allocates ({} and [])
\* carry none.  Two values are the same object exactly when they carry the
\* same ref.
RECURSIVE WithRefs(_, _)
WithRefs(x, ref) ==
  CASE x.t = "object" ->
         [t |-> "object",
          v |-> [i \in 1..Len(x.v) |->
                   <<x.v[i][1], WithRefs(x.v[i][2], ref \o "/" \o x.v[i][1])>>],
          ref |-> ref]
    [] x.t = "array" ->
         [t |-> "array",
          v |-> [i \in 1..Len(x.v) |-> WithRefs(x.v[i], ref \o "/" \o IndexKey(i - 1))],
          ref |-> ref]
    [] x.t = "function" ->
         Fn([i \in 1..Len(x.v) |->
               IF i = 1 THEN x.v[1] ELSE WithRefs(x.v[i], ref \o "/" \o IndexKey(i - 1))])
    [] OTHER -> x

\* the objects and arrays reachable from x, and from what a function captured
RECURSIVE Containers(_)
Containers(x) ==
  CASE x.t \in {"object"} ->
         {x} \cup UNION {Containers(x.v[i][2]) : i \in 1..Len(x.v)}
    [] x.t = "array" -> {x} \cup UNION {Containers(x.v[i]) : i \in 1..Len(x.v)}
    [] x.t = "function" ->
         UNION {Containers(x.v[i]) :
                  i \in {j \in 2..Len(x.v) : ~(j = 2 /\ x.v[1] = "boundMerge")}}
    [] OTHER -> {}

\* typeof(value)
TypeOf(value) == IF value.t \in {"null", "array", "object"} THEN "object" ELSE value.t

\* Array.isArray(value)
IsArray(value) == value.t = "array"

\* !value : the values JavaScript coerces to false
Falsy(value) ==
  \/ value = Undef
  \/ value = Null
  \/ value = Bool(FALSE)
  \/ value = Num(0)
  \/ value = Str("")

\* Object.keys(obj)
Keys(obj) == [i \in 1..Len(obj.v) |-> obj.v[i][1]]

KeySet(obj) == {obj.v[i][1] : i \in 1..Len(obj.v)}

\* obj[key] : undefined when obj has no such property
Get(obj, key) ==
  IF \E i \in 1..Len(obj.v) : obj.v[i][1] = key
    THEN obj.v[CHOOSE i \in 1..Len(obj.v) : obj.v[i][1] = key][2]
    ELSE Undef

\* Object.prototype, as far as the calls look into it: what every object
\* inherits under the names constructor and toString
ObjectPrototype ==
  Obj(<< <<"constructor", Fn(<<"Object">>)>>,
         <<"toString", Fn(<<"Object.prototype.toString">>)>> >>)

\* obj[key] for an object: its own property, or else the inherited one
GetProp(obj, key) ==
  IF \E i \in 1..Len(obj.v) : obj.v[i][1] = key THEN Get(obj, key)
  ELSE Get(ObjectPrototype, key)

\* an assignment that puts a new property first
Put_front(obj, key, value) ==
  IF \E i \in 1..Len(obj.v) : obj.v[i][1] = key
    THEN [obj EXCEPT !.v = [i \in 1..Len(obj.v) |->
                              IF obj.v[i][1] = key THEN <<key, value>> ELSE obj.v[i]]]
    ELSE [obj EXCEPT !.v = << <<key, value>> >> \o obj.v]

\* obj[key] = value : an existing property keeps its place, a new one is added
\* last; the object written to stays the object it was (EXCEPT keeps its ref)
Put(obj, key, value) ==
  IF \E i \in 1..Len(obj.v) : obj.v[i][1] = key
    THEN [obj EXCEPT !.v = [i \in 1..Len(obj.v) |->
                              IF obj.v[i][1] = key THEN <<key, value>> ELSE obj.v[i]]]
    ELSE [obj EXCEPT !.v = Append(obj.v, <<key, value>>)]

\* array.unshift(value)
Push_front(array, value) == [array EXCEPT !.v = <<value>> \o array.v]

\* array.push(value)
Push(array, value) == [array EXCEPT !.v = Append(array.v, value)]

----------------------------------------------------------------------------
(* Error messages *)

MsgModelNotObject == "Expecting a model that is an object"
MsgModelNotArray == "Expecting a model that is an array"
\* `Unexpected model type "${modelType}"`
MsgUnexpectedModel(modelType) == "Unexpected model type \"" \o modelType \o "\""

MsgBindUndefined == "Not expecting an undefined value here"
MsgBindFunction == "Not expecting a function value"
MsgFlattenUnbound ==
  "Not expecting value 'undefined' here. Did you try to call this without binding?"
MsgFlattenHost ==
  "Expecting a host object to merge data into and a key (\"flatten\" can only be used in objects, not arrays)"

RECURSIVE JoinFrom(_, _, _)
\* the items of names from the i-th on, each preceded by the separator
JoinFrom(names, sep, i) ==
  IF i > Len(names) THEN "" ELSE sep \o names[i] \o JoinFrom(names, sep, i + 1)

\* names.join(sep)
Join(names, sep) == IF names = <<>> THEN "" ELSE names[1] \o JoinFrom(names, sep, 2)

\* `Unknown model "${modelName}". Known model names are: ${modelNames}`
MsgUnknownModel(modelName, modelNames) ==
  "Unknown model \"" \o modelName \o "\". Known model names are: " \o modelNames

----------------------------------------------------------------------------
(* typeofEx *)

typeofEx(value) ==
  LET t0 == TypeOf(value)
  IN  IF t0 = "object"
        THEN IF value = Null THEN "null"
             ELSE IF IsArray(value) THEN "array" ELSE "object"
        ELSE t0

----------------------------------------------------------------------------
(* Merge protocol *)

\* the MergeArguments handed to a bound merge function
ObjectTarget(host, key) == [hostObject |-> host, hostKey |-> Str(key), hostArray |-> Undef]
ArrayTarget(host) == [hostObject |-> Undef, hostKey |-> Undef, hostArray |-> host]

\* a binder that captures null instead of the value it is given
bindMergeFunction_bindsNull(umf, value) ==
  IF value = Undef THEN Err(MsgBindUndefined)
  ELSE IF TypeOf(value) = "function" THEN Err(MsgBindFunction)
  ELSE Fn(<<"boundMerge", umf, Null>>)

\* bindMergeFunction(umf, value): the closure (args) => umf(args, value)
bindMergeFunction(umf, value) ==
  IF value = Undef THEN Err(MsgBindUndefined)
  ELSE IF TypeOf(value) = "function" THEN Err(MsgBindFunction)
  ELSE Fn(<<"boundMerge", umf, value>>)

MsgNullToObject == "TypeError: Cannot convert undefined or null to object"

\* Object.entries(value): the array of the own enumerable [key, value] pairs; an
\* array's are its indices, a number or boolean has none, null and undefined raise
ObjectEntries(value) ==
  CASE value.t = "object" -> Arr(value.v)
    [] value.t = "array" ->
         Arr([i \in 1..Len(value.v) |-> <<IndexKey(i - 1), value.v[i]>>])
    [] value.t \in {"number", "boolean"} -> Arr(<<>>)
    [] value.t \in {"null", "undefined"} -> Err(MsgNullToObject)

RECURSIVE FlattenLoop(_, _, _, _)
\* for (const [k, v] of Object.entries(value)) hostObject[`${hostKey}-${k}`] = v
FlattenLoop(hostObject, hostKey, entries, i) ==
  IF i > Len(entries) THEN hostObject
  ELSE FlattenLoop(Put(hostObject, hostKey \o "-" \o entries[i][1], entries[i][2]),
                   hostKey, entries, i + 1)

\* a flatten that appends its value to an array host instead of refusing it
unboundMerge_flatten_push(args, value) ==
  IF value = Undef THEN Err(MsgFlattenUnbound)
  ELSE IF IsArray(args.hostArray) THEN Push(args.hostArray, value)
  ELSE IF Falsy(args.hostObject) \/ Falsy(args.hostKey) THEN Err(MsgFlattenHost)
  ELSE IF IsErr(ObjectEntries(value)) THEN ObjectEntries(value)
  ELSE FlattenLoop(args.hostObject, args.hostKey.v, ObjectEntries(value).v, 1)

\* unboundMerge.flatten(args, value); the answer is the host as the call leaves it
unboundMerge_flatten(args, value) ==
  IF value = Undef THEN Err(MsgFlattenUnbound)
  ELSE IF Falsy(args.hostObject) \/ Falsy(args.hostKey) THEN Err(MsgFlattenHost)
  ELSE IF IsErr(ObjectEntries(value)) THEN ObjectEntries(value)
  ELSE FlattenLoop(args.hostObject, args.hostKey.v, ObjectEntries(value).v, 1)

\* calling an unbound merge function by name
CallUnbound(umf, args, value) ==
  IF umf = "flatten" THEN unboundMerge_flatten(args, value) ELSE Err("not a function")

\* calling a bound merge function: (args) => umf(args, value)
CallBound(bound, args) == CallUnbound(bound.v[2], args, bound.v[3])

----------------------------------------------------------------------------
(* match: the plain matcher functions *)

match_string(d) == IF TypeOf(d) = "string" THEN d ELSE Undef

match_number(d) == IF TypeOf(d) = "number" THEN d ELSE Undef

match_boolean(d) == IF TypeOf(d) = "boolean" THEN d ELSE Undef

match_null(d) == IF d = Null THEN Null ELSE Undef

match_fail(ignored) == Undef

match_any(d) == d

----------------------------------------------------------------------------
(* valueTransforms *)

\* a notEmpty that lets a function through
valueTransforms_notEmpty_function(value) ==
  CASE typeofEx(value) = "array" -> IF Len(value.v) > 0 THEN value ELSE Undef
    [] typeofEx(value) = "object" -> IF Len(Keys(value)) > 0 THEN value ELSE Undef
    [] typeofEx(value) = "function" -> value
    [] OTHER -> Undef

valueTransforms_notEmpty(value) ==
  CASE typeofEx(value) = "array" -> IF Len(value.v) > 0 THEN value ELSE Undef
    [] typeofEx(value) = "object" -> IF Len(Keys(value)) > 0 THEN value ELSE Undef
    [] OTHER -> Undef

\* a oneValue that answers the first member of any array that has one
valueTransforms_oneValue_first(value) ==
  CASE typeofEx(value) = "array" -> IF Len(value.v) >= 1 THEN value.v[1] ELSE Undef
    [] typeofEx(value) = "object" ->
         LET keys == Keys(value)
         IN  IF Len(keys) = 1 THEN Get(value, keys[1]) ELSE Undef
    [] typeofEx(value) \in {"string", "number", "boolean", "null"} -> value
    [] OTHER -> Undef

valueTransforms_oneValue(value) ==
  CASE typeofEx(value) = "array" -> IF Len(value.v) = 1 THEN value.v[1] ELSE Undef
    [] typeofEx(value) = "object" ->
         LET keys == Keys(value)
         IN  IF Len(keys) = 1 THEN Get(value, keys[1]) ELSE Undef
    [] typeofEx(value) \in {"string", "number", "boolean", "null"} -> value
    [] OTHER -> Undef

----------------------------------------------------------------------------
(* makeMatch: the matcher factories.  Each answers a closure over its      *)
(* arguments; Call below runs the closure's body.                          *)

makeMatch_object(m) == Fn(<<"makeMatch.object", m>>)

makeMatch_array(m) == Fn(<<"makeMatch.array", m>>)

makeMatch_notEmpty(m) == Fn(<<"makeMatch.notEmpty", m>>)

makeMatch_arrayTransformed(arrayModel, tr) == Fn(<<"makeMatch.arrayTransformed", arrayModel, tr>>)

makeMatch_firstMatch(arrayOfModels, tr) == Fn(<<"makeMatch.firstMatch", arrayOfModels, tr>>)

makeMatch_firstOneValue(modelsArray) ==
  makeMatch_firstMatch(modelsArray, Fn(<<"valueTransforms.oneValue">>))

makeMatch_firstNotEmpty(arrayModel) ==
  makeMatch_arrayTransformed(arrayModel, Fn(<<"valueTransforms.notEmpty">>))

makeMatch_transform(m, tr) == Fn(<<"makeMatch.transform", m, tr>>)

makeMatch_flatten(m) == Fn(<<"makeMatch.flatten", m>>)

----------------------------------------------------------------------------
(* The projectors and the resolver *)

\* a resolver whose "number" case answers the string matcher
getModelMatcher_numberAsString(m) ==
  LET modelType == typeofEx(m)
  IN  CASE modelType = "function" -> m
        [] modelType \in {"string", "number"} -> Fn(<<"match.string">>)
        [] modelType = "boolean" -> Fn(<<"match.boolean">>)
        [] modelType = "array" -> makeMatch_array(m)
        [] modelType = "object" -> makeMatch_object(m)
        [] modelType = "undefined" -> Fn(<<"match.fail">>)
        [] modelType = "null" -> Fn(<<"match.null">>)
        [] OTHER -> Err(MsgUnexpectedModel(modelType))

\* a resolver for which the model null never matches
getModelMatcher_nullAsFail(m) ==
  LET modelType == typeofEx(m)
  IN  CASE modelType = "function" -> m
        [] modelType = "string" -> Fn(<<"match.string">>)
        [] modelType = "number" -> Fn(<<"match.number">>)
        [] modelType = "boolean" -> Fn(<<"match.boolean">>)
        [] modelType = "array" -> makeMatch_array(m)
        [] modelType = "object" -> makeMatch_object(m)
        [] modelType \in {"undefined", "null"} -> Fn(<<"match.fail">>)
        [] OTHER -> Err(MsgUnexpectedModel(modelType))

\* getModelMatcher(model): the matcher function for the model's kind
getModelMatcher(m) ==
  LET modelType == typeofEx(m)
  IN  CASE modelType = "function" -> m
        [] modelType = "string" -> Fn(<<"match.string">>)
        [] modelType = "number" -> Fn(<<"match.number">>)
        [] modelType = "boolean" -> Fn(<<"match.boolean">>)
        [] modelType = "array" -> makeMatch_array(m)
        [] modelType = "object" -> makeMatch_object(m)
        [] modelType = "undefined" -> Fn(<<"match.fail">>)
        [] modelType = "null" -> Fn(<<"match.null">>)
        [] OTHER -> Err(MsgUnexpectedModel(modelType))

\* transform(value) for a value transform
CallTransform(tr, value) ==
  CASE tr.v[1] = "valueTransforms.notEmpty" -> valueTransforms_notEmpty(value)
    [] tr.v[1] = "valueTransforms.oneValue" -> valueTransforms_oneValue(value)

\* an inner loop that never applies the transform
Transformed_never(tr, projected) == projected

\* if (transform) { projected = transform(projected) }
Transformed(tr, projected) ==
  IF IsErr(projected) THEN projected
  ELSE IF ~Falsy(tr) THEN CallTransform(tr, projected) ELSE projected

\* an object projector that assigns a function like any other value
InsertIntoObject_assign(res, key, projectedValue) ==
  IF IsErr(projectedValue) THEN projectedValue
  ELSE IF projectedValue # Undef THEN Put(res, key, projectedValue)
  ELSE res

\* projectObject's handling of one projected value: the result object afterwards
InsertIntoObject(res, key, projectedValue) ==
  IF IsErr(projectedValue) THEN projectedValue
  ELSE IF projectedValue # Undef
    THEN IF TypeOf(projectedValue) = "function"
           THEN CallBound(projectedValue, ObjectTarget(res, key))
           ELSE Put(res, key, projectedValue)
    ELSE res

\* an array projector that also drops the elements projected to an empty object
InsertIntoArray_dropEmpty(res, projected, nullIfNotMatching) ==
  IF IsErr(projected) THEN projected
  ELSE IF projected # Undef /\ projected # Obj(<<>>)
    THEN IF TypeOf(projected) = "function"
           THEN CallBound(projected, ArrayTarget(res))
           ELSE Push(res, projected)
    ELSE IF nullIfNotMatching = Bool(TRUE) THEN Push(res, Null)
    ELSE res

\* projectArray's handling of one element's `projected`: the result array afterwards
InsertIntoArray(res, projected, nullIfNotMatching) ==
  IF IsErr(projected) THEN projected
  ELSE IF projected # Undef
    THEN IF TypeOf(projected) = "function"
           THEN CallBound(projected, ArrayTarget(res))
           ELSE Push(res, projected)
    ELSE IF nullIfNotMatching = Bool(TRUE) THEN Push(res, Null)
    ELSE res

\* a firstMatch that answers the one-element array instead of its element
FirstOf_array(res) ==
  IF IsErr(res) THEN res
  ELSE IF ~Falsy(res) /\ Len(res.v) > 0 THEN res
  ELSE Undef

\* a firstMatch that tests the element the way it tests the array
FirstOf_truthy(res) ==
  IF IsErr(res) THEN res
  ELSE IF ~Falsy(res) /\ Len(res.v) > 0 /\ ~Falsy(res.v[1]) THEN res.v[1]
  ELSE Undef

\* the tail of the closure makeMatch.firstMatch answers
FirstOf(res) ==
  IF IsErr(res) THEN res
  ELSE IF ~Falsy(res) /\ Len(res.v) > 0 THEN res.v[1]
  ELSE Undef

\* the tail of the closure makeMatch.notEmpty answers
NotEmptyOf(value) == IF IsErr(value) THEN value ELSE valueTransforms_notEmpty(value)

\* the tail of the closure makeMatch.flatten answers
BindFlatten(value2) ==
  IF IsErr(value2) THEN value2
  ELSE IF value2 = Undef THEN Undef
  ELSE bindMergeFunction("flatten", value2)

RECURSIVE projectAny(_, _)
RECURSIVE Call(_, _)
RECURSIVE projectObject(_, _)
RECURSIVE ObjectLoop(_, _, _, _)
RECURSIVE projectArray(_, _, _, _)
RECURSIVE ArrayLoop(_, _, _, _, _, _)
RECURSIVE TryModels(_, _, _, _)

\* the loop with a truthiness test in place of dataValue !== undefined
RECURSIVE ObjectLoop_truthy(_, _, _, _)
ObjectLoop_truthy(d, entries, i, res) ==
  IF IsErr(res) \/ i > Len(entries) THEN res
  ELSE ObjectLoop_truthy(d, entries, i + 1,
         IF ~Falsy(GetProp(d, entries[i][1]))
           THEN InsertIntoObject(res, entries[i][1],
                                 projectAny(GetProp(d, entries[i][1]), entries[i][2]))
           ELSE res)

\* projectObject's loop over Object.entries(model), from entry i on; a raised
\* error leaves the loop
ObjectLoop(d, entries, i, res) ==
  IF IsErr(res) \/ i > Len(entries) THEN res
  ELSE ObjectLoop(d, entries, i + 1,
         IF GetProp(d, entries[i][1]) # Undef
           THEN InsertIntoObject(res, entries[i][1],
                                 projectAny(GetProp(d, entries[i][1]), entries[i][2]))
           ELSE res)

\* an object projector whose result starts as the data instead of {}
projectObject_fromData(d, m) ==
  IF d = Null \/ TypeOf(d) # "object" \/ IsArray(d) THEN Undef
  ELSE IF m = Null \/ TypeOf(m) # "object" \/ IsArray(m) THEN Err(MsgModelNotObject)
  ELSE ObjectLoop(d, m.v, 1, d)

projectObject(d, m) ==
  IF d = Null \/ TypeOf(d) # "object" \/ IsArray(d) THEN Undef
  ELSE IF m = Null \/ TypeOf(m) # "object" \/ IsArray(m) THEN Err(MsgModelNotObject)
  ELSE ObjectLoop(d, m.v, 1, Obj(<<>>))

\* an inner loop that takes a raised error for a non-match
TryRest_swallow(dataValue, candidates, tr, j, projected) ==
  IF ~IsErr(projected) /\ projected # Undef THEN projected
  ELSE TryModels(dataValue, candidates, tr, j + 1)

\* an inner loop that goes on after a match, so that the last match wins
TryRest_lastWins(dataValue, candidates, tr, j, projected) ==
  IF IsErr(projected) THEN projected
  ELSE IF TryModels(dataValue, candidates, tr, j + 1) # Undef
    THEN TryModels(dataValue, candidates, tr, j + 1)
  ELSE projected

\* after candidate j gave `projected`: break, or go on with the next candidate
TryRest(dataValue, candidates, tr, j, projected) ==
  IF IsErr(projected) \/ projected # Undef THEN projected
  ELSE TryModels(dataValue, candidates, tr, j + 1)

\* projectArray's inner loop over the candidate models, from candidate j on:
\* the value of `projected` when the loop is left
TryModels(dataValue, candidates, tr, j) ==
  IF j > Len(candidates) THEN Undef
  ELSE TryRest(dataValue, candidates, tr, j,
               Transformed(tr, projectAny(dataValue, candidates[j])))

\* projectArray's outer loop over the data elements, from element i on; a raised
\* error leaves the loop
ArrayLoop(elems, candidates, tr, nullIfNotMatching, i, res) ==
  IF IsErr(res) \/ i > Len(elems) THEN res
  ELSE ArrayLoop(elems, candidates, tr, nullIfNotMatching, i + 1,
         InsertIntoArray(res, TryModels(elems[i], candidates, tr, 1), nullIfNotMatching))

projectArray(d, m, tr, nullIfNotMatching) ==
  IF d = Null \/ TypeOf(d) # "object" \/ ~IsArray(d) THEN Undef
  ELSE IF m = Null \/ TypeOf(m) # "object" \/ ~IsArray(m) THEN Err(MsgModelNotArray)
  ELSE ArrayLoop(d.v, m.v, tr, nullIfNotMatching, 1, Arr(<<>>))

\* Object(value): a new empty object for null and undefined, the value itself
\* when it is an object, array or function, and a wrapper object (typeof
\* "object", no own enumerable property) around a number or boolean
ObjectConstructor(value) ==
  CASE value.t \in {"undefined", "null"} -> Obj(<<>>)
    [] value.t \in {"object", "array", "function"} -> value
    [] value.t \in {"number", "boolean"} ->
         [t |-> "object", v |-> <<>>, primitiveValue |-> value]

\* fn(data) for a matcher function: the body of the closure, or of the match.* function
Call(fn, arg) ==
  LET code == fn.v
  IN  CASE code[1] = "match.string" -> match_string(arg)
        [] code[1] = "match.number" -> match_number(arg)
        [] code[1] = "match.boolean" -> match_boolean(arg)
        [] code[1] = "match.null" -> match_null(arg)
        [] code[1] = "match.fail" -> match_fail(arg)
        [] code[1] = "match.any" -> match_any(arg)
        [] code[1] = "Object" -> ObjectConstructor(arg)
        [] code[1] = "Object.prototype.toString" -> Str("[object Undefined]")
        [] code[1] = "makeMatch.object" -> projectObject(arg, code[2])
        [] code[1] = "makeMatch.array" -> projectArray(arg, code[2], Undef, Undef)
        [] code[1] = "makeMatch.notEmpty" -> NotEmptyOf(projectAny(arg, code[2]))
        [] code[1] = "makeMatch.arrayTransformed" -> projectArray(arg, code[2], code[3], Undef)
        [] code[1] = "makeMatch.firstMatch" ->
             FirstOf(projectArray(Arr(<<arg>>), code[2], code[3], Undef))
        [] code[1] = "makeMatch.transform" -> Transformed(code[3], projectAny(arg, code[2]))
        [] code[1] = "makeMatch.flatten" -> BindFlatten(projectObject(arg, code[2]))

projectAny(d, m) ==
  LET matcher == getModelMatcher(m)
  IN  IF IsErr(matcher) THEN matcher ELSE Call(matcher, d)

\* projectToModel(data, modelOrLibrary, modelName), for a library that is an
\* object and a name that is a string.  With no name and no model,
\* Object.keys(undefined) raises before the message is built.
projectToModel(d, modelOrLibrary, modelName) ==
  IF modelName = Undef \/ modelName = Null
    THEN IF modelOrLibrary = Undef THEN Err(MsgNullToObject)
         ELSE projectAny(d, modelOrLibrary)
    ELSE IF GetProp(modelOrLibrary, modelName.v) = Undef
      THEN Err(MsgUnknownModel(modelName.v, Join(Keys(modelOrLibrary), ", ")))
      ELSE projectAny(d, GetProp(modelOrLibrary, modelName.v))

----------------------------------------------------------------------------
(* The merge functions of one projection.  The log of a call holds, in     *)
(* order, an event <<"bind", n>> for the n-th function bindMergeFunction   *)
(* returned during the call and an event <<"invoke", n>> for every time a  *)
(* projector called the function it was handed.                            *)

\* the number of functions bound so far
BindsIn(log) == Cardinality({i \in 1..Len(log) : log[i][1] = "bind"})

\* bindMergeFunction returned a new function
Bound(log) == Append(log, <<"bind", BindsIn(log) + 1>>)

\* a projector called the function the projection just before handed to it: the
\* function of the log's last event, and function 0 when that event binds none
Invoked(log) ==
  Append(log, <<"invoke",
                IF log # <<>> /\ log[Len(log)][1] = "bind" THEN log[Len(log)][2] ELSE 0>>)

\* the tail of the closure makeMatch.flatten answers: the function is bound
\* when bindMergeFunction returns one
LogBind(log, value2) == IF TypeOf(value2) = "function" THEN Bound(log) ELSE log

\* a projector that calls the function it is handed twice
LogInsert_twice(log, projected) ==
  IF TypeOf(projected) = "function" THEN Invoked(Invoked(log)) ELSE log

\* if (typeof (projected) === "function") { projected({...}) }: the call of the
\* function a projection answered, in projectObject and in projectArray
LogInsert(log, projected) ==
  IF TypeOf(projected) = "function" THEN Invoked(log) ELSE log

RECURSIVE LogAny(_, _, _)
RECURSIVE LogObjectLoop(_, _, _, _, _)
RECURSIVE LogArrayLoop(_, _, _, _, _, _)
RECURSIVE LogTry(_, _, _, _, _)

\* projectObject's loop from entry i on, with the result so far: the log after it
LogObjectLoop(d, entries, i, res, log) ==
  IF IsErr(res) \/ i > Len(entries) THEN log
  ELSE LogObjectLoop(d, entries, i + 1,
         ObjectLoop(d, SubSeq(entries, i, i), 1, res),
         IF GetProp(d, entries[i][1]) # Undef
           THEN LogInsert(LogAny(GetProp(d, entries[i][1]), entries[i][2], log),
                          projectAny(GetProp(d, entries[i][1]), entries[i][2]))
           ELSE log)

\* the log after projectObject(d, m)
LogObject(d, m, log) ==
  IF d = Null \/ TypeOf(d) # "object" \/ IsArray(d) THEN log
  ELSE IF m = Null \/ TypeOf(m) # "object" \/ IsArray(m) THEN log
  ELSE LogObjectLoop(d, m.v, 1, Obj(<<>>), log)

\* after candidate j gave `projected`: break, or go on with the next candidate
LogTryRest(dataValue, candidates, tr, j, projected, log) ==
  IF IsErr(projected) \/ projected # Undef THEN log
  ELSE LogTry(dataValue, candidates, tr, j + 1, log)

\* projectArray's inner loop from candidate j on: the log when the loop is left
LogTry(dataValue, candidates, tr, j, log) ==
  IF j > Len(candidates) THEN log
  ELSE LogTryRest(dataValue, candidates, tr, j,
                  Transformed(tr, projectAny(dataValue, candidates[j])),
                  LogAny(dataValue, candidates[j], log))

\* projectArray's outer loop from element i on, with the result so far
LogArrayLoop(elems, candidates, tr, i, res, log) ==
  IF IsErr(res) \/ i > Len(elems) THEN log
  ELSE LogArrayLoop(elems, candidates, tr, i + 1,
         InsertIntoArray(res, TryModels(elems[i], candidates, tr, 1), Undef),
         LogInsert(LogTry(elems[i], candidates, tr, 1, log),
                   TryModels(elems[i], candidates, tr, 1)))

\* the log after projectArray(d, m, tr)
LogArray(d, m, tr, log) ==
  IF d = Null \/ TypeOf(d) # "object" \/ ~IsArray(d) THEN log
  ELSE IF m = Null \/ TypeOf(m) # "object" \/ ~IsArray(m) THEN log
  ELSE LogArrayLoop(d.v, m.v, tr, 1, Arr(<<>>), log)

\* the log after fn(arg) for a matcher function
LogCall(fn, arg, log) ==
  LET code == fn.v
  IN  CASE code[1] = "makeMatch.object" -> LogObject(arg, code[2], log)
        [] code[1] = "makeMatch.array" -> LogArray(arg, code[2], Undef, log)
        [] code[1] = "makeMatch.notEmpty" -> LogAny(arg, code[2], log)
        [] code[1] = "makeMatch.arrayTransformed" -> LogArray(arg, code[2], code[3], log)
        [] code[1] = "makeMatch.firstMatch" -> LogArray(Arr(<<arg>>), code[2], code[3], log)
        [] code[1] = "makeMatch.transform" -> LogAny(arg, code[2], log)
        [] code[1] = "makeMatch.flatten" ->
             LogBind(LogObject(arg, code[2], log), BindFlatten(projectObject(arg, code[2])))
        [] OTHER -> log

\* the log after projectAny(d, m)
LogAny(d, m, log) ==
  IF IsErr(getModelMatcher(m)) THEN log ELSE LogCall(getModelMatcher(m), d, log)

\* the log of projectToModel(d, modelOrLibrary, modelName)
LogProject(d, modelOrLibrary, modelName) ==
  IF modelName = Undef \/ modelName = Null
    THEN IF modelOrLibrary = Undef THEN <<>> ELSE LogAny(d, modelOrLibrary, <<>>)
    ELSE IF GetProp(modelOrLibrary, modelName.v) = Undef THEN <<>>
      ELSE LogAny(d, GetProp(modelOrLibrary, modelName.v), <<>>)

----------------------------------------------------------------------------
(* The model library of index.js (src/unnamed/part_002) *)

sampleCharacter1 ==
  Obj(<< <<"id", Num(0)>>,
         <<"character", Obj(<< <<"name", Str("")>>, <<"age", Num(0)>> >>)>> >>)

sampleCharacter2 ==
  Obj(<< <<"id", Num(0)>>,
         <<"character",
           makeMatch_flatten(Obj(<< <<"name", Str("")>>, <<"age", Num(0)>> >>))>> >>)

sampleLocation1 ==
  Obj(<< <<"character", makeMatch_flatten(Obj(<< <<"name", Str("")>> >>))>>,
         <<"location", Obj(<< <<"details", Arr(<<Str("")>>)>> >>)>> >>)

sampleLocation2 ==
  Obj(<< <<"character", makeMatch_flatten(Obj(<< <<"name", Str("")>> >>))>>,
         <<"location", Obj(<< <<"details", Arr(<<Num(0)>>)>> >>)>> >>)

sampleLocation3 ==
  Obj(<< <<"character", makeMatch_flatten(Obj(<< <<"name", Str("")>> >>))>>,
         <<"location", Obj(<< <<"details", Arr(<<Str(""), Num(0)>>)>> >>)>> >>)

sampleWords1 == Obj(<< <<"words", Arr(<<Obj(<< <<"en", Str("")>> >>)>>)>> >>)

sampleWords2 ==
  Obj(<< <<"words", Arr(<<makeMatch_notEmpty(Obj(<< <<"en", Str("")>> >>))>>)>> >>)

sampleWords4a ==
  Obj(<< <<"words", Arr(<<Obj(<< <<"en", Str("")>> >>), Obj(<< <<"nl", Str("")>> >>)>>)>> >>)

sampleWords4b ==
  Obj(<< <<"words", Arr(<<makeMatch_notEmpty(Obj(<< <<"en", Str("")>> >>)),
                          makeMatch_notEmpty(Obj(<< <<"nl", Str("")>> >>))>>)>> >>)

sampleWords4c ==
  Obj(<< <<"words",
           makeMatch_firstNotEmpty(
             Arr(<<Obj(<< <<"en", Str("")>> >>), Obj(<< <<"nl", Str("")>> >>)>>))>> >>)

sampleWords4d ==
  Obj(<< <<"words",
           makeMatch_arrayTransformed(
             Arr(<<Obj(<< <<"en", Str("")>> >>), Obj(<< <<"nl", Str("")>> >>)>>),
             Fn(<<"valueTransforms.notEmpty">>))>> >>)

sampleName1 ==
  Obj(<< <<"name",
           makeMatch_firstMatch(
             Arr(<<Obj(<< <<"nl", Str("")>> >>), Obj(<< <<"en", Str("")>> >>)>>),
             Fn(<<"valueTransforms.notEmpty">>))>> >>)

sampleName2a ==
  Obj(<< <<"name",
           makeMatch_firstMatch(
             Arr(<<Obj(<< <<"nl", Str("")>> >>), Obj(<< <<"en", Str("")>> >>)>>),
             Fn(<<"valueTransforms.oneValue">>))>> >>)

sampleName2b ==
  Obj(<< <<"name",
           makeMatch_firstOneValue(
             Arr(<<Obj(<< <<"nl", Str("")>> >>), Obj(<< <<"en", Str("")>> >>)>>))>> >>)

\* the library object, its entries in the order index.js assigns them
modelLibrary ==
  Obj(<< <<"sampleCharacter1", sampleCharacter1>>,
         <<"sampleCharacter2", sampleCharacter2>>,
         <<"sampleLocation1", sampleLocation1>>,
         <<"sampleLocation2", sampleLocation2>>,
         <<"sampleLocation3", sampleLocation3>>,
         <<"sampleWords1", sampleWords1>>,
         <<"sampleWords2", sampleWords2>>,
         <<"sampleWords4a", sampleWords4a>>,
         <<"sampleWords4b", sampleWords4b>>,
         <<"sampleWords4c", sampleWords4c>>,
         <<"sampleWords4d", sampleWords4d>>,
         <<"sampleName1", sampleName1>>,
         <<"sampleName2a", sampleName2a>>,
         <<"sampleName2b", sampleName2b>>,
         <<"default", sampleCharacter1>> >>)

\* the models of the library
LibraryModels == {modelLibrary.v[i][2] : i \in 1..Len(modelLibrary.v)}

----------------------------------------------------------------------------
(* The command line.  A string of the command line is the sequence of its  *)
(* characters, so that lastIndexOf, startsWith, endsWith and slice are     *)
(* computed; an argument is the string value Str(characters).              *)

\* s.startsWith(p)
StartsWith(s, p) == Len(s) >= Len(p) /\ SubSeq(s, 1, Len(p)) = p

\* s.endsWith(p)
EndsWith(s, p) == Len(s) >= Len(p) /\ SubSeq(s, Len(s) - Len(p) + 1, Len(s)) = p

\* s.lastIndexOf(c), counted from 0; -1 when c is not in s
LastIndexOf(s, c) ==
  IF \E i \in 1..Len(s) : s[i] = c
    THEN (CHOOSE i \in 1..Len(s) : s[i] = c /\ \A j \in (i + 1)..Len(s) : s[j] # c) - 1
    ELSE -1

\* s.slice(from), s.slice(0, to)
SliceFrom(s, from) == SubSeq(s, from + 1, Len(s))
SliceTo(s, to) == SubSeq(s, 1, to)

\* `${value}` in a template or a string concatenation
ToText(value) ==
  IF value = Undef THEN <<"u", "n", "d", "e", "f", "i", "n", "e", "d">> ELSE value.v

OptM == Str(<<"-", "m">>)
OptF == Str(<<"-", "f">>)
Dash == Str(<<"-">>)
DefaultName == Str(<<"d", "e", "f", "a", "u", "l", "t">>)
NodeExe == <<"n", "o", "d", "e", ".", "e", "x", "e">>

MsgNoExtension == "Expecting file name to have an extension"
MsgNoFileName == "Expecting a file name after \"-f\""
RECURSIVE StringOf(_)
\* the string a sequence of characters spells
StringOf(chars) == IF chars = <<>> THEN "" ELSE Head(chars) \o StringOf(Tail(chars))

\* `Unexpected argument "${arg}"; expecting "-f" or "-m"`
MsgUnexpectedArgument(arg) ==
  "Unexpected argument \"" \o StringOf(ToText(arg)) \o "\"; expecting \"-f\" or \"-m\""

\* { modelName, inputFile, outputFile }
Transformation(modelName, inputFile, outputFile) ==
  [modelName |-> modelName, inputFile |-> inputFile, outputFile |-> outputFile]

\* the state of parseArguments' loop: the arguments left, the current model
\* name, the results pushed, and the message of the error thrown ("" for none)
ParseState(rest, modelName, results, thrown) ==
  [rest |-> rest, modelName |-> modelName, results |-> results, thrown |-> thrown]

\* args.shift(): undefined when no argument is left
Shifted(rest) == IF rest = <<>> THEN Undef ELSE Head(rest)
AfterShift(rest) == IF rest = <<>> THEN <<>> ELSE Tail(rest)

\* the branch of "-f": inputFile was shifted, rest is what follows it
InputFileStep(st, inputFile, rest) ==
  LET extensionIndex == LastIndexOf(inputFile.v, ".")
  IN  IF extensionIndex < 0
        THEN ParseState(rest, st.modelName, st.results, MsgNoExtension)
      ELSE IF Len(rest) > 0 /\ (~StartsWith(rest[1].v, <<"-">>) \/ rest[1] = Dash)
        THEN ParseState(Tail(rest), st.modelName,
               Append(st.results, Transformation(st.modelName, inputFile, Head(rest))),
               "")
      ELSE ParseState(rest, st.modelName,
             Append(st.results,
               Transformation(st.modelName, inputFile,
                 Str(SliceTo(inputFile.v, extensionIndex) \o <<".">>
                       \o ToText(st.modelName) \o <<".", "o", "u", "t">>
                       \o SliceFrom(inputFile.v, extensionIndex)))),
             "")

\* a loop body that stamps a transformation with the name "default"
ParseStep_defaultName(st) ==
  LET arg == Head(st.rest)
      rest == Tail(st.rest)
  IN  CASE arg = OptM -> ParseState(AfterShift(rest), Shifted(rest), st.results, "")
        [] arg = OptF ->
             IF Len(rest) > 0
               THEN InputFileStep([st EXCEPT !.modelName = DefaultName],
                                  Head(rest), Tail(rest))
               ELSE ParseState(rest, st.modelName, st.results, MsgNoFileName)
        [] arg # OptM /\ arg # OptF /\ EndsWith(arg.v, NodeExe) ->
             ParseState(AfterShift(rest), st.modelName, st.results, "")
        [] OTHER -> ParseState(rest, st.modelName, st.results, MsgUnexpectedArgument(arg))

\* one turn of parseArguments' while loop
ParseStep(st) ==
  LET arg == Head(st.rest)
      rest == Tail(st.rest)
  IN  CASE arg = OptM -> ParseState(AfterShift(rest), Shifted(rest), st.results, "")
        [] arg = OptF ->
             IF Len(rest) > 0
               THEN InputFileStep(st, Head(rest), Tail(rest))
               ELSE ParseState(rest, st.modelName, st.results, MsgNoFileName)
        [] arg # OptM /\ arg # OptF /\ EndsWith(arg.v, NodeExe) ->
             ParseState(AfterShift(rest), st.modelName, st.results, "")
        [] OTHER -> ParseState(rest, st.modelName, st.results, MsgUnexpectedArgument(arg))

RECURSIVE ParseLoop(_)
\* while (args.length > 0) { ... } return results
ParseLoop(st) ==
  IF st.thrown # "" THEN Err(st.thrown)
  ELSE IF Len(st.rest) = 0 THEN Arr(st.results)
  ELSE ParseLoop(ParseStep(st))

\* parseArguments(args): the array of the transformations, or the error thrown
parseArguments(arguments) == ParseLoop(ParseState(arguments, DefaultName, <<>>, ""))

----------------------------------------------------------------------------
(* Files.  The file system is a function from the names of the files that  *)
(* exist to their contents; a content is a string value.                   *)

\* existsSync(name)
existsSync(fs, name) == name \in DOMAIN fs

\* rmSync(name)
rmSync(fs, name) == [n \in DOMAIN fs \ {name} |-> fs[n]]

\* renameSync(oldName, newName): newName is replaced when it exists
renameSync(fs, oldName, newName) ==
  [n \in (DOMAIN fs \ {oldName}) \cup {newName} |->
     IF n = newName THEN fs[oldName] ELSE fs[n]]

\* writeFileSync(name, text)
writeFileSync(fs, name, text) ==
  [n \in DOMAIN fs \cup {name} |-> IF n = name THEN text ELSE fs[n]]

\* the string that spells value in JSON, kept as the value it spells
JsonText(value) == [t |-> "string", json |-> value]

\* JSON.stringify(value, null, 2): undefined for undefined and for a function
JSONstringify(value) ==
  IF value.t \in {"undefined", "function"} THEN Undef ELSE JsonText(value)

MsgSyntaxError == "SyntaxError: not valid JSON"
MsgNoSuchFile == "ENOENT: no such file or directory"
MsgWriteData == "TypeError: The \"data\" argument must be of type string"

\* JSON.parse(text)
JSONparse(text) == IF "json" \in DOMAIN text THEN text.json ELSE Err(MsgSyntaxError)

\* loadJson(filename): the value read, or the error raised
loadJson(fs, filename) ==
  IF existsSync(fs, filename) THEN JSONparse(fs[filename]) ELSE Err(MsgNoSuchFile)

BakSuffix == <<".", "b", "a", "k">>

\* the files after the first if-statement of saveJson
Rotated(fs, filename, bakName) ==
  IF existsSync(fs, filename)
    THEN renameSync(IF existsSync(fs, bakName) THEN rmSync(fs, bakName) ELSE fs,
                    filename, bakName)
    ELSE fs

\* the data after the second if-statement of saveJson
SavedText(d) == IF TypeOf(d) # "string" THEN JSONstringify(d) ELSE d

\* a saveJson that keeps a backup that is already there
saveJson_keepsOldBackup(fs, filename, d) ==
  IF TypeOf(SavedText(d)) = "string"
    THEN [files |-> writeFileSync(
                      IF existsSync(fs, filename \o BakSuffix)
                        THEN fs ELSE Rotated(fs, filename, filename \o BakSuffix),
                      filename, SavedText(d)),
          thrown |-> ""]
    ELSE [files |-> Rotated(fs, filename, filename \o BakSuffix), thrown |-> MsgWriteData]

\* saveJson(filename, data): the files afterwards, and the message of the error
\* writeFileSync raises when the data is no string ("" for none)
saveJson(fs, filename, d) ==
  IF TypeOf(SavedText(d)) = "string"
    THEN [files |-> writeFileSync(Rotated(fs, filename, filename \o BakSuffix),
                                  filename, SavedText(d)),
          thrown |-> ""]
    ELSE [files |-> Rotated(fs, filename, filename \o BakSuffix), thrown |-> MsgWriteData]

----------------------------------------------------------------------------
(* runTransformApplication.  A run is the files it leaves, the events it   *)
(* went through, <<"skip", k>>, <<"read", k>>, <<"print", k>> and          *)
(* <<"write", k>> for the k-th transformation, and the error that ended it.*)

RunState(fs, evs, msg) == [files |-> fs, events |-> evs, thrown |-> msg]

\* a string of the command line as the engine's string; undefined stays undefined
AsKey(name) == IF name = Undef THEN Undef ELSE Str(StringOf(name.v))

\* if (outputFile === "-") console.log(json) else saveJson(outputFile, json)
Written(st, k, outputFile, json) ==
  IF outputFile = Dash THEN RunState(st.files, Append(st.events, <<"print", k>>), "")
  ELSE RunState(saveJson(st.files, outputFile.v, json).files,
                Append(st.events, <<"write", k>>),
                saveJson(st.files, outputFile.v, json).thrown)

\* after projectToModel answered `projected`, or raised
Projected(st, k, tr, projected) ==
  IF IsErr(projected) THEN RunState(st.files, st.events, projected.v)
  ELSE Written(st, k, tr.outputFile, JSONstringify(projected))

\* after loadJson answered d, or raised
Loaded(lib, st, k, tr, d) ==
  IF IsErr(d) THEN RunState(st.files, st.events, d.v)
  ELSE Projected(st, k, tr, projectToModel(d, lib, AsKey(tr.modelName)))

\* the body of the loop for the k-th transformation
RunStep(lib, st, k, tr) ==
  IF Falsy(GetProp(lib, StringOf(ToText(tr.modelName))))
    THEN RunState(st.files, Append(st.events, <<"skip", k>>), "")
    ELSE Loaded(lib, RunState(st.files, Append(st.events, <<"read", k>>), ""), k, tr,
                loadJson(st.files, tr.inputFile.v))

RECURSIVE RunLoop(_, _, _, _)
\* for (const { modelName, inputFile, outputFile } of transformations), from the
\* k-th on; an error raised leaves the loop
RunLoop(lib, trs, k, st) ==
  IF st.thrown # "" \/ k > Len(trs) THEN st
  ELSE RunLoop(lib, trs, k + 1, RunStep(lib, st, k, trs[k]))

\* after parseArguments answered ts, or raised
Parsed(lib, fs, ts) ==
  IF IsErr(ts) THEN RunState(fs, <<>>, ts.v)
  ELSE IF Len(ts.v) = 0 THEN RunState(fs, <<<<"usage", 0>>>>, "")
  ELSE RunLoop(lib, ts.v, 1, RunState(fs, <<>>, ""))

\* runTransformApplication(modelLibrary, args) on the files fs
runTransformApplication(lib, fs, arguments) == Parsed(lib, fs, parseArguments(arguments))

----------------------------------------------------------------------------
(* Inputs: the JSON documents and the models the calls are made with *)

\* the longest data array
MaxLen == 2

\* numbers in the data are 0..MaxNum
MaxNum == 1

\* the objects with one of the key orders and values from vals
ObjsOver(keyOrders, vals) ==
  UNION {{Obj([i \in 1..Len(ks) |-> <<ks[i], f[i]>>]) : f \in [1..Len(ks) -> vals]} :
         ks \in keyOrders}

\* the arrays of at most n elements from elems
ArrsOver(elems, n) == UNION {{Arr(e) : e \in [1..k -> elems]} : k \in 0..n}

Prims ==
  {Str(""), Str("hi"), Bool(TRUE), Bool(FALSE), Null} \cup {Num(n) : n \in 0..MaxNum}

InnerObjs ==
  {Obj(<<>>), Obj(<< <<"a", Str("hi")>> >>), Obj(<< <<"b", Str("hi")>> >>),
   Obj(<< <<"a", Str("hi")>>, <<"b", Num(0)>> >>)}

\* the elements of the data arrays
Elems ==
  {Str("hi"), Num(MaxNum), Obj(<< <<"b", Str("hi")>> >>),
   Obj(<< <<"a", Str("hi")>>, <<"b", Num(0)>> >>)}

DataArrays == ArrsOver(Elems, MaxLen)

FieldVals ==
  {Str("hi"), Num(0), Null, Obj(<<>>), Obj(<< <<"a", Str("hi")>>, <<"b", Num(0)>> >>),
   Arr(<<Str("hi"), Num(0)>>)}

DataKeyOrders ==
  {<<>>, <<"a">>, <<"b">>, <<"a", "b">>, <<"">>, <<"", "a">>, <<"a", "a-a">>}

\* the values of the fields of the two-field data objects
FieldVals2 ==
  {Str("hi"), Num(0), Obj(<< <<"a", Str("hi")>>, <<"b", Num(0)>> >>),
   Arr(<<Str("hi"), Num(0)>>)}

DataObjects ==
  ObjsOver({ks \in DataKeyOrders : Len(ks) < 2}, FieldVals)
    \cup ObjsOver({ks \in DataKeyOrders : Len(ks) = 2}, FieldVals2) \cup InnerObjs

SampleData ==
  {Obj(<< <<"id", Num(1)>>,
          <<"character", Obj(<< <<"name", Str("Bob")>>, <<"age", Num(9)>>,
                                <<"extra", Str("drop")>> >>)>> >>),
   Obj(<< <<"character", Obj(<< <<"name", Str("Rommel")>> >>)>> >>),
   Obj(<< <<"words", Arr(<<Obj(<< <<"en", Str("hi")>> >>),
                           Obj(<< <<"nl", Str("hoi")>> >>)>>)>> >>),
   Obj(<< <<"words", Arr(<<Obj(<< <<"nl", Str("hoi")>> >>),
                           Obj(<< <<"fr", Str("salut")>> >>)>>)>> >>),
   Obj(<< <<"name", Obj(<< <<"nl", Str("hoi")>> >>)>> >>),
   Obj(<< <<"name", Obj(<< <<"en", Str("hi")>>, <<"nl", Str("hoi")>> >>)>> >>)}

\* objects that hold an array of objects
NestedData ==
  {Obj(<< <<"a", Arr(<<Obj(<< <<"a", Str("hi")>>, <<"b", Num(0)>> >>)>>)>> >>),
   Obj(<< <<"a", Arr(<<Str("hi"), Obj(<< <<"b", Str("hi")>> >>)>>)>> >>)}

\* every JSON document a call is made with
Values == Prims \cup DataArrays \cup DataObjects \cup NestedData \cup SampleData

\* primitive placeholders: two literals of each kind
PrimModels == {Str(""), Str("x"), Num(0), Num(7), Bool(TRUE), Bool(FALSE)}

InnerModels ==
  {Obj(<<>>), Obj(<< <<"a", Str("")>> >>), Obj(<< <<"b", Str("")>> >>),
   Obj(<< <<"a", Str("")>>, <<"b", Num(0)>> >>),
   Obj(<< <<"b", Num(0)>>, <<"a", Str("")>> >>)}

\* the candidates of an array model
Candidates ==
  {Str(""), Obj(<< <<"a", Str("")>> >>), Obj(<< <<"b", Str("")>> >>),
   makeMatch_notEmpty(Obj(<< <<"a", Str("")>> >>)),
   makeMatch_flatten(Obj(<< <<"a", Str("")>> >>)),
   makeMatch_object(Str("")),
   Fn(<<"match.any">>), Undef}

ArrayModels ==
  {Arr(<<>>)} \cup {Arr(<<c>>) : c \in Candidates}
    \cup {Arr(<<c1, c2>>) : c1 \in Candidates, c2 \in Candidates}

\* the models of an object model's fields
FieldModels ==
  {Str(""), Num(0), Null, Undef, Fn(<<"match.any">>),
   Obj(<< <<"a", Str("")>>, <<"b", Num(0)>> >>),
   Obj(<< <<"b", Num(0)>>, <<"a", Str("")>> >>),
   Arr(<<Str("")>>),
   makeMatch_flatten(Obj(<< <<"a", Str("")>>, <<"b", Num(0)>> >>)),
   makeMatch_flatten(Obj(<< <<"b", Num(0)>>, <<"a", Str("")>> >>))}

ModelKeyOrders ==
  {<<>>, <<"a">>, <<"b">>, <<"a", "b">>, <<"b", "a">>, <<"">>, <<"a", "a-a">>, <<"a-a", "a">>}

\* the models of the fields of the two-field object models
FieldModels2 ==
  {Str(""), Num(0), Fn(<<"match.any">>),
   Obj(<< <<"b", Num(0)>>, <<"a", Str("")>> >>),
   Arr(<<Str("")>>),
   makeMatch_flatten(Obj(<< <<"a", Str("")>>, <<"b", Num(0)>> >>))}

ObjectModels ==
  ObjsOver({ks \in ModelKeyOrders : Len(ks) < 2}, FieldModels)
    \cup ObjsOver({ks \in ModelKeyOrders : Len(ks) = 2}, FieldModels2)

Transforms == {Undef, Fn(<<"valueTransforms.notEmpty">>), Fn(<<"valueTransforms.oneValue">>)}

\* matcher-factory results used as a whole model
FactoryModels ==
  {makeMatch_object(m) : m \in InnerModels \cup {Str(""), Null, Arr(<<Str("")>>)}}
    \cup {makeMatch_array(m) : m \in {Arr(<<Str("")>>), Arr(<<Obj(<<>>)>>), Obj(<<>>)}}
    \cup {makeMatch_notEmpty(m) : m \in InnerModels \cup {Arr(<<Str("")>>), Str("")}}
    \cup {makeMatch_flatten(m) : m \in InnerModels \cup {Str(""), Null}}
    \cup {makeMatch_firstMatch(Arr(<<c1, c2>>), tr) :
            c1 \in InnerModels, c2 \in {Obj(<< <<"b", Str("")>> >>), Str("")},
            tr \in Transforms}
    \cup {makeMatch_firstMatch(Arr(<<c1, Num(0)>>), tr) :
            c1 \in {Null, Bool(TRUE)},
            tr \in {Undef, Fn(<<"valueTransforms.oneValue">>)}}
    \cup {makeMatch_arrayTransformed(Arr(<<c1, c2>>), tr) :
            c1 \in {Obj(<< <<"a", Str("")>> >>), Str("")},
            c2 \in {Obj(<< <<"b", Str("")>> >>), Num(0)},
            tr \in Transforms}
    \cup {makeMatch_transform(m, tr) :
            m \in {Obj(<< <<"a", Str("")>> >>), Arr(<<Str("")>>), Str("")},
            tr \in Transforms}
    \cup {Fn(<<f>>) : f \in {"match.string", "match.number", "match.boolean",
                             "match.null", "match.fail", "match.any"}}

\* array models nested in an object model, and flatten nested in both
NestedModels ==
  {Obj(<< <<"a", m>> >>) :
     m \in {Arr(<<makeMatch_flatten(Obj(<< <<"a", Str("")>> >>))>>),
            Arr(<<Obj(<< <<"a", Str("")>> >>), Obj(<< <<"b", Str("")>> >>)>>),
            makeMatch_firstOneValue(Arr(<<Obj(<< <<"a", Str("")>> >>),
                                          Obj(<< <<"b", Str("")>> >>)>>)),
            Obj(<< <<"a", makeMatch_flatten(Obj(<< <<"a", Str("")>> >>))>> >>)}}

\* every model a call is made with
Models ==
  PrimModels \cup {Null, Undef} \cup InnerModels \cup ArrayModels \cup ObjectModels
    \cup FactoryModels \cup NestedModels \cup LibraryModels

\* the falsy values of JSON
FalsyVals == {Num(0), Str(""), Bool(FALSE), Null}

\* objects whose fields hold falsy values: one field each, and all four
FalsyData ==
  {Obj(<< <<"a", v>> >>) : v \in FalsyVals}
    \cup {Obj(<< <<"n", Num(0)>>, <<"s", Str("")>>, <<"b", Bool(FALSE)>>, <<"z", Null>> >>)}

\* object models with one placeholder of each kind, with the key the data
\* has and with one it lacks, and a model for all four fields
FalsyModels ==
  {Obj(<< <<k, m>> >>) :
     k \in {"a", "b"},
     m \in {Num(7), Str("x"), Bool(TRUE), Null, Fn(<<"match.any">>)}}
    \cup {Obj(<< <<"n", Num(0)>>, <<"s", Str("")>>, <<"b", Bool(TRUE)>>, <<"z", Null>> >>)}

\* a model value of a kind the resolver has no case for: the BigInt literal 1n
BigIntModel == [t |-> "bigint", v |-> 1]

\* candidates that raise for some element: an unsupported model, an object
\* matcher whose model is no object, and a flatten, whose function refuses
\* the array host
RaisingCandidates ==
  {BigIntModel, makeMatch_object(Str("")), makeMatch_flatten(Obj(<< <<"a", Str("")>> >>))}

\* array models of two candidates with a raising one first, second or both
RaisingArrayModels ==
  {Arr(<<c1, c2>>) : c1 \in RaisingCandidates \cup {Str("")},
                     c2 \in RaisingCandidates \cup {Obj(<< <<"a", Str("")>> >>)}}

\* a flatten handed to a value transform: under makeMatch.notEmpty, and as a
\* candidate of makeMatch.firstNotEmpty and makeMatch.firstOneValue, alone and
\* before another candidate
TransformedFlattenModels ==
  LET F == makeMatch_flatten(Obj(<< <<"a", Str("")>>, <<"b", Num(0)>> >>))
      B == Obj(<< <<"b", Str("")>> >>)
  IN  {makeMatch_notEmpty(F),
       makeMatch_firstNotEmpty(Arr(<<F>>)), makeMatch_firstNotEmpty(Arr(<<F, B>>)),
       makeMatch_firstOneValue(Arr(<<F>>)), makeMatch_firstOneValue(Arr(<<F, B>>))}

\* the <<data, model>> pairs of the calls of projectToModel
ProjectInputs ==
  (Values \X (PrimModels \cup {Null, Undef} \cup InnerModels \cup FactoryModels
                \cup NestedModels))
    \cup (DataObjects \X ObjectModels)
    \cup (DataArrays \X ArrayModels)
    \cup (Prims \X (ObjectModels \cup ArrayModels))
    \cup (SampleData \X LibraryModels)
    \cup (FalsyData \X FalsyModels)
    \cup (Values \X TransformedFlattenModels)
    \cup (DataObjects \X {Obj(<< <<"a", m>> >>) : m \in TransformedFlattenModels})
    \cup (DataArrays \X RaisingArrayModels)
    \cup ({Obj(<< <<"a", d>> >>) : d \in DataArrays}
            \X {Obj(<< <<"a", m>> >>) : m \in RaisingArrayModels})

----------------------------------------------------------------------------
(* The calls.  pc is where the caller stands: "idle" before its first      *)
(* call, then the call that last returned (or raised).                     *)

Init ==
  /\ pc = "idle"
  /\ call = "none"
  /\ data = Undef
  /\ model = Undef
  /\ nameGiven = Undef
  /\ transform = Undef
  /\ pad = Undef
  /\ result = Undef
  /\ boundMerge = Undef
  /\ target = Undef
  /\ mergeLog = <<>>
  /\ argv = <<>>
  /\ opts = <<>>
  /\ transformations = Undef
  /\ files = <<>>
  /\ filesBefore = <<>>
  /\ saved = <<>>
  /\ runEvents = <<>>
  /\ runThrown = ""

\* a value of the JSON data model: no undefined, function or raised error
IsPlain(x) == x.t \notin {"undefined", "function", "error"}

\* projectToModel(data, model)
Project ==
  /\ pc = "idle"
  /\ \E in \in ProjectInputs :
       /\ data' = in[1]
       /\ model' = in[2]
       /\ result' = projectToModel(in[1], in[2], Undef)
  /\ mergeLog' = LogProject(data', model', Undef)
  /\ call' = "projectToModel"
  /\ pc' = "projected"
  /\ UNCHANGED <<transform, pad, boundMerge, target, nameGiven, cliVars>>

\* projectToModel(r, model) for the r the first call returned
Reproject ==
  /\ pc = "projected"
  /\ IsPlain(result)
  /\ data' = result
  /\ result' = projectToModel(result, model, Undef)
  /\ mergeLog' = LogProject(result, model, Undef)
  /\ pc' = "reprojected"
  /\ UNCHANGED <<call, model, transform, pad, boundMerge, target, nameGiven, cliVars>>

\* projectArray(data, model, transform, nullIfNotMatching)
ProjectArrayCall ==
  /\ pc = "idle"
  /\ \E d \in DataArrays \cup {Null, Obj(<<>>)}, m \in ArrayModels \cup {Obj(<<>>)},
        tr \in Transforms, p \in {Undef, Bool(TRUE)} :
       /\ data' = d
       /\ model' = m
       /\ transform' = tr
       /\ pad' = p
       /\ result' = projectArray(d, m, tr, p)
  /\ mergeLog' = LogArray(data', model', transform', <<>>)
  /\ call' = "projectArray"
  /\ pc' = "called"
  /\ UNCHANGED <<boundMerge, target, nameGiven, cliVars>>

\* the libraries and the names of the calls that name a model
Libraries ==
  {modelLibrary, Obj(<<>>),
   Obj(<< <<"toString", Str("")>>, <<"words", sampleWords4b>> >>)}

ModelNames ==
  KeySet(modelLibrary) \cup {"words", "", "nope", "constructor", "toString"}

\* the documents of those calls
NamedData == SampleData \cup {Null, Num(0), Str("hi"), Arr(<<Num(MaxNum)>>)}

\* projectToModel(data, library, name)
ProjectNamed ==
  /\ pc = "idle"
  /\ \E d \in NamedData, lib \in Libraries, name \in ModelNames :
       /\ name = "constructor" => d.t # "string"
       /\ data' = d
       /\ model' = lib
       /\ nameGiven' = Str(name)
       /\ result' = projectToModel(d, lib, Str(name))
  /\ mergeLog' = LogProject(data', model', nameGiven')
  /\ call' = "projectToModel"
  /\ pc' = "named"
  /\ UNCHANGED <<transform, pad, boundMerge, target, cliVars>>

\* the <<data, model>> pairs of the calls whose objects are told apart
RefInputs ==
  (DataObjects \X ObjectModels)
    \cup (DataArrays \X ArrayModels)
    \cup ((NestedData \cup SampleData) \X (NestedModels \cup LibraryModels))
    \cup ((InnerObjs \cup NestedData \cup {Arr(<<Obj(<<>>)>>)}) \X FactoryModels)

\* projectToModel(data, model) for a data tree and a model whose objects and
\* arrays carry their refs
ProjectRefs ==
  /\ pc = "idle"
  /\ \E in \in RefInputs :
       /\ data' = WithRefs(in[1], "data")
       /\ model' = WithRefs(in[2], "model")
       /\ result' = projectToModel(WithRefs(in[1], "data"), WithRefs(in[2], "model"), Undef)
  /\ mergeLog' = LogProject(data', model', Undef)
  /\ call' = "projectToModel"
  /\ pc' = "projectedRefs"
  /\ UNCHANGED <<transform, pad, boundMerge, target, nameGiven, cliVars>>

\* the values handed to a value transform: JSON values, undefined and functions
TransformValues ==
  Prims \cup DataArrays \cup InnerObjs
    \cup {Undef, Fn(<<"match.any">>), Fn(<<"boundMerge", "flatten", Obj(<<>>)>>),
          Obj(<< <<"en", Str("hi")>> >>),
          Obj(<< <<"en", Str("hi")>>, <<"nl", Str("hoi")>> >>),
          Obj(<< <<"a", Null>> >>), Obj(<< <<"a", Arr(<<>>)>> >>),
          Arr(<<Null>>), Arr(<<Arr(<<>>)>>), Arr(<<Obj(<<>>)>>)}

\* valueTransforms.notEmpty(value), valueTransforms.oneValue(value)
TransformCall ==
  /\ pc = "idle"
  /\ \E tr \in Transforms \ {Undef}, value \in TransformValues :
       /\ transform' = tr
       /\ data' = value
       /\ result' = CallTransform(tr, value)
  /\ call' = "valueTransforms"
  /\ pc' = "transformed"
  /\ UNCHANGED <<mergeLog, model, pad, boundMerge, target, nameGiven, cliVars>>

\* the values handed to bindMergeFunction
BindValues ==
  {Undef, Null, Num(0), Bool(FALSE), Fn(<<"match.any">>),
   Fn(<<"boundMerge", "flatten", Obj(<<>>)>>)}
    \cup InnerObjs \cup ArrsOver({Str("hi"), Num(MaxNum)}, MaxLen)

\* the targets a bound merge function is invoked on
MergeTargets ==
  {ObjectTarget(h, k) : h \in {Obj(<<>>), Obj(<< <<"a-a", Num(MaxNum)>> >>)},
                        k \in {"a", ""}}
    \cup {ArrayTarget(Arr(<<>>)), ArrayTarget(Arr(<<Str("hi")>>))}

\* bindMergeFunction(unboundMerge.flatten, value)
Bind ==
  /\ pc = "idle"
  /\ \E value \in BindValues :
       /\ data' = value
       /\ result' = bindMergeFunction("flatten", value)
       /\ boundMerge' = IF IsErr(result') THEN Undef ELSE result'
  /\ call' = "bindMergeFunction"
  /\ pc' = "bound"
  /\ UNCHANGED <<mergeLog, model, transform, pad, target, nameGiven, cliVars>>

\* bound(args) for the function the bind returned; it may be invoked again
Invoke ==
  /\ pc \in {"bound", "invoked"}
  /\ boundMerge # Undef
  /\ \E t \in MergeTargets :
       /\ target' = t
       /\ result' = CallBound(boundMerge, t)
  /\ pc' = "invoked"
  /\ UNCHANGED <<mergeLog, call, data, model, transform, pad, boundMerge, nameGiven, cliVars>>

Next ==
  \/ Project
  \/ Reproject
  \/ ProjectArrayCall
  \/ ProjectNamed
  \/ ProjectRefs
  \/ TransformCall
  \/ Bind
  \/ Invoke

Spec == Init /\ [][Next]_vars

----------------------------------------------------------------------------
(* The calls of parseArguments *)

\* the longest option list a command line is written from
MaxOptions == 3

\* the longest argument list that is not written from options
MaxArgs == 4

\* the sequences of at most n members of S
SeqsOver(S, n) == UNION {[1..k -> S] : k \in 0..n}

\* an option as the user means it: -m name, -f input, -f input output
ModelOption(name) == [opt |-> "m", a |-> name, b |-> Undef]
FileOption(inputFile, outputFile) == [opt |-> "f", a |-> inputFile, b |-> outputFile]

\* the arguments an option is written as
OptionArgs(o) ==
  IF o.opt = "m" THEN <<OptM, o.a>>
  ELSE IF o.b = Undef THEN <<OptF, o.a>> ELSE <<OptF, o.a, o.b>>

RECURSIVE OptionListArgs(_)
OptionListArgs(os) ==
  IF os = <<>> THEN <<>> ELSE OptionArgs(Head(os)) \o OptionListArgs(Tail(os))

\* model names (one of them spelt -f), input files, and output files
OptionNames == {Str(<<"m">>), Str(<<"o", ".", "j">>), OptF}
InputFiles == {Str(<<"a", ".", "j">>), Str(<<"b", ".", "c", ".", "d">>)}
OutputFiles == {Undef, Dash, Str(<<"o", ".", "j">>)}

Options ==
  {ModelOption(n) : n \in OptionNames}
    \cup {FileOption(i, o) : i \in InputFiles, o \in OutputFiles}

\* the arguments of the command lines that are not written from options
RawArgs ==
  {OptM, OptF, Dash, Str(<<"a", ".", "j">>), Str(<<"b">>), Str(<<"m">>), Str(NodeExe)}

\* parseArguments(args) for a command line written from a list of options
ParseOptions ==
  /\ pc = "idle"
  /\ \E os \in SeqsOver(Options, MaxOptions) :
       /\ opts' = os
       /\ argv' = OptionListArgs(os)
       /\ transformations' = parseArguments(OptionListArgs(os))
  /\ pc' = "parsedOptions"
  /\ UNCHANGED <<engineVars, fileVars, runVars>>

\* parseArguments(args) for any argument list
ParseRaw ==
  /\ pc = "idle"
  /\ \E as \in SeqsOver(RawArgs, MaxArgs) :
       /\ argv' = as
       /\ transformations' = parseArguments(as)
  /\ pc' = "parsedRaw"
  /\ UNCHANGED <<engineVars, opts, fileVars, runVars>>

\* the most calls of saveJson in a row
MaxSaves == 3

\* the files saved to: a file and the file named as its backup
OutJ == <<"o", ".", "j">>
SaveNames == {OutJ, OutJ \o BakSuffix}

\* the files there are before the first save
InitialFiles ==
  {<<>>,
   OutJ :> Str(<<"c">>),
   (OutJ \o BakSuffix) :> Str(<<"b">>),
   (OutJ :> Str(<<"c">>)) @@ ((OutJ \o BakSuffix) :> Str(<<"b">>))}

\* the data saved: strings, a value to be converted, and undefined
SaveData == {Str(<<"1">>), Str(<<"2">>), Num(0), Undef}

\* the record of a call of saveJson
SaveCall(filename, d, thrown) == [file |-> filename, data |-> d, thrown |-> thrown]

\* the first saveJson(filename, data)
SaveFirst ==
  /\ pc = "idle"
  /\ \E fs0 \in InitialFiles, f \in SaveNames, d \in SaveData :
       /\ filesBefore' = fs0
       /\ files' = saveJson(fs0, f, d).files
       /\ saved' = <<SaveCall(f, d, saveJson(fs0, f, d).thrown)>>
  /\ pc' = "saved"
  /\ UNCHANGED <<engineVars, parseVars, runVars>>

\* a further saveJson(filename, data)
SaveAgain ==
  /\ pc = "saved"
  /\ Len(saved) < MaxSaves
  /\ \E f \in SaveNames, d \in SaveData :
       /\ filesBefore' = files
       /\ files' = saveJson(files, f, d).files
       /\ saved' = Append(saved, SaveCall(f, d, saveJson(files, f, d).thrown))
  /\ UNCHANGED <<pc, engineVars, parseVars, runVars>>

\* the most option pairs a run's command line is written from
MaxRunOptions == 2

ConstructorName ==
  Str(<<"c", "o", "n", "s", "t", "r", "u", "c", "t", "o", "r">>)

\* the model names of the runs: "default", which the library has, "m", which it
\* has not, and "constructor", which it inherits
RunNames == {DefaultName, Str(<<"m">>), ConstructorName}

\* an option pair as the user means it: -m name -f input [output]
RunOption(name, inputFile, outputFile) ==
  [name |-> name, file |-> FileOption(inputFile, outputFile)]

RunOptions ==
  {RunOption(n, f[1], f[2]) :
     n \in RunNames,
     f \in {<<Str(<<"a", ".", "j">>), Undef>>, <<Str(<<"a", ".", "j">>), Dash>>,
            <<Str(<<"b", ".", "c", ".", "d">>), Str(<<"o", ".", "j">>)>>}}

RECURSIVE RunOptionArgs(_)
\* the arguments a list of option pairs is written as
RunOptionArgs(os) ==
  IF os = <<>> THEN <<>>
  ELSE <<OptM, Head(os).name>> \o OptionArgs(Head(os).file) \o RunOptionArgs(Tail(os))

\* arguments that are no option
StrayArgs == {Str(<<"b">>), OptF}

\* the command line written from the option pairs, with a stray argument after
\* the first `at` pairs when there is one
RunArgs(os, stray, at) ==
  IF stray = Undef THEN RunOptionArgs(os)
  ELSE RunOptionArgs(SubSeq(os, 1, at)) \o <<stray>>
         \o RunOptionArgs(SubSeq(os, at + 1, Len(os)))

\* the files there are before a run: both inputs hold JSON; b.c.d is missing;
\* a.j holds no JSON and o.j is there already
RunFiles ==
  LET aj == <<"a", ".", "j">>
      bcd == <<"b", ".", "c", ".", "d">>
      bob == Obj(<< <<"id", Num(1)>>,
                    <<"character", Obj(<< <<"name", Str("Bob")>>, <<"age", Num(9)>> >>)>> >>)
  IN  {(aj :> JsonText(bob)) @@ (bcd :> JsonText(Arr(<<bob>>))),
       aj :> JsonText(bob),
       (aj :> Str(<<"c">>)) @@ (bcd :> JsonText(bob)) @@ (OutJ :> Str(<<"c">>))}

\* runTransformApplication(modelLibrary, args)
Run ==
  /\ pc = "idle"
  /\ \E os \in SeqsOver(RunOptions, MaxRunOptions), stray \in StrayArgs \cup {Undef},
        fs0 \in RunFiles :
       \E at \in 0..(IF stray = Undef THEN 0 ELSE Len(os)) :
         /\ opts' = os
         /\ argv' = RunArgs(os, stray, at)
         /\ transformations' = parseArguments(RunArgs(os, stray, at))
         /\ filesBefore' = fs0
         /\ files' = runTransformApplication(modelLibrary, fs0, RunArgs(os, stray, at)).files
         /\ runEvents' = runTransformApplication(modelLibrary, fs0, RunArgs(os, stray, at)).events
         /\ runThrown' = runTransformApplication(modelLibrary, fs0, RunArgs(os, stray, at)).thrown
  /\ pc' = "ran"
  /\ UNCHANGED <<engineVars, saved>>

\* process.argv[0], the path of the interpreter: node.exe, a path to it, and
\* the interpreter's name where executables carry no extension
InterpreterPaths ==
  {Str(NodeExe), Str(<<"c", ":", "/">> \o NodeExe), Str(<<"/", "n", "o", "d", "e">>)}

\* process.argv[1], the path of the script
ScriptPaths == {Str(<<"i", ".", "j", "s">>)}

\* parseArguments([...process.argv]) for a command line written from options
ParseArgv ==
  /\ pc = "idle"
  /\ \E p \in InterpreterPaths, s \in ScriptPaths, os \in SeqsOver(Options, MaxOptions) :
       /\ opts' = os
       /\ argv' = <<p, s>> \o OptionListArgs(os)
       /\ transformations' = parseArguments(<<p, s>> \o OptionListArgs(os))
  /\ pc' = "parsedArgv"
  /\ UNCHANGED <<engineVars, fileVars, runVars>>

CliNext == ParseOptions \/ ParseRaw \/ SaveFirst \/ SaveAgain \/ Run \/ ParseArgv

CliSpec == Init /\ [][CliNext]_vars

----------------------------------------------------------------------------
(* The documents of the spec's examples *)

SampleCharacterData ==
  Obj(<< <<"id", Num(1)>>,
         <<"character", Obj(<< <<"name", Str("Bob")>>, <<"age", Num(9)>>,
                               <<"extra", Str("drop")>> >>)>> >>)

SampleWordsData ==
  Obj(<< <<"words", Arr(<<Obj(<< <<"en", Str("hi")>> >>),
                          Obj(<< <<"nl", Str("hoi")>> >>)>>)>> >>)

SampleRommelData == Obj(<< <<"character", Obj(<< <<"name", Str("Rommel")>> >>)>> >>)

----------------------------------------------------------------------------
(* Vocabulary of the properties *)

HasKey(obj, key) == key \in KeySet(obj)

IsPrimitivePlaceholder(m) == m.t \in {"string", "number", "boolean"}

\* an object model made of primitive placeholders and nested object models
RECURSIVE IsPlainObjectModel(_)
IsPlainObjectModel(m) ==
  /\ m.t = "object"
  /\ \A i \in 1..Len(m.v) :
       IsPrimitivePlaceholder(m.v[i][2]) \/ IsPlainObjectModel(m.v[i][2])

\* value v is of the kind sub-model m asks for
MatchesKind(v, m) ==
  IF IsPrimitivePlaceholder(m) THEN v.t = m.t ELSE v.t = "object"

\* out is what data d keeps under the plain model m: for an object model exactly
\* the model's keys present in d with a value of the right kind, in the model's
\* key order, each holding what its own value keeps
RECURSIVE KeepsExactly(_, _, _)
KeepsExactly(out, d, m) ==
  IF IsPrimitivePlaceholder(m) THEN out = d
  ELSE /\ out.t = "object"
       /\ Keys(out) = SelectSeq(Keys(m),
                        LAMBDA k : HasKey(d, k) /\ MatchesKind(Get(d, k), Get(m, k)))
       /\ \A k \in KeySet(out) : KeepsExactly(Get(out, k), Get(d, k), Get(m, k))

----------------------------------------------------------------------------
(* C1 *)

\* C1: projecting any JSON value against a primitive placeholder returns the value
\* unchanged when its kind (typeofEx) is the placeholder's kind and undefined
\* otherwise, whatever the placeholder's literal is.
C1_PrimitivePlaceholder ==
  (pc \in {"projected", "reprojected"} /\ IsPrimitivePlaceholder(model)) =>
    result = IF typeofEx(data) = typeofEx(model) THEN data ELSE Undef

\* a number kept under the placeholder 7
C1_Witness ==
  /\ pc = "projected"
  /\ model = Num(7)
  /\ data = Num(MaxNum)
  /\ result = data

----------------------------------------------------------------------------
(* C2 *)

\* C2: projecting an object against an object model of primitive placeholders and
\* nested object models keeps exactly the model keys whose data value is present
\* and of the sub-model's kind, recursively, in the model's key order; the spec's
\* character example gives {id:1, character:{name:"Bob", age:9}}.
C2_ObjectProjection ==
  (pc = "projected" /\ IsPlainObjectModel(model) /\ data.t = "object") =>
    /\ KeepsExactly(result, data, model)
    /\ (data = SampleCharacterData /\ model = sampleCharacter1) =>
         result = Obj(<< <<"id", Num(1)>>,
                         <<"character", Obj(<< <<"name", Str("Bob")>>,
                                               <<"age", Num(9)>> >>)>> >>)

\* the model's order b, a wins over the data's order a, b, and the example is run
C2_Witness ==
  \/ /\ pc = "projected"
     /\ model = Obj(<< <<"b", Num(0)>>, <<"a", Str("")>> >>)
     /\ data = Obj(<< <<"a", Str("hi")>>, <<"b", Num(0)>> >>)
     /\ result = Obj(<< <<"b", Num(0)>>, <<"a", Str("hi")>> >>)
  \/ /\ pc = "projected"
     /\ model = sampleCharacter1
     /\ data = SampleCharacterData
     /\ Keys(Get(result, "character")) = <<"name", "age">>

----------------------------------------------------------------------------
(* C3 *)

\* C3 as stated: the words example yields {words:[{},{}]}.
C3_WordsAsStated ==
  (pc = "projected" /\ data = SampleWordsData /\ model = sampleWords1) =>
    result = Obj(<< <<"words", Arr(<<Obj(<<>>), Obj(<<>>)>>)>> >>)

\* C3, amended: the words example yields {words:[{en:"hi"},{}]}: the element that
\* has the key en keeps it, the element that has not is retained as {}.
C3_WordsExample ==
  (pc = "projected" /\ data = SampleWordsData /\ model = sampleWords1) =>
    result = Obj(<< <<"words", Arr(<<Obj(<< <<"en", Str("hi")>> >>), Obj(<<>>)>>)>> >>)

C3_Witness ==
  /\ pc = "projected"
  /\ data = SampleWordsData
  /\ model = sampleWords1
  /\ Len(Get(result, "words").v) = 2

----------------------------------------------------------------------------
(* C4 *)

\* model m uses the function named code somewhere: as a matcher, inside a
\* factory's arguments, or as a transform
RECURSIVE UsesCode(_, _)
UsesCode(m, code) ==
  CASE m.t = "object" -> \E i \in 1..Len(m.v) : UsesCode(m.v[i][2], code)
    [] m.t = "array" -> \E i \in 1..Len(m.v) : UsesCode(m.v[i], code)
    [] m.t = "function" ->
         m.v[1] = code \/ \E i \in 2..Len(m.v) : UsesCode(m.v[i], code)
    [] OTHER -> FALSE

\* a model that only filters: no flatten, no oneValue transform
NoReshaping(m) ==
  ~UsesCode(m, "makeMatch.flatten") /\ ~UsesCode(m, "valueTransforms.oneValue")

\* C4 as stated: re-projecting a plain result against the same model gives the
\* result again, for every model the resolver accepts.
C4_IdempotentAsStated == pc = "reprojected" => result = data

\* C4, amended: re-projecting a plain result against the same model gives the
\* result again, for every model that holds no makeMatch.flatten and no
\* valueTransforms.oneValue transform (firstOneValue): literals, match.*, and the
\* factories object, array, notEmpty, firstNotEmpty, and arrayTransformed,
\* firstMatch and transform with no transform or with notEmpty.
C4_Idempotent == (pc = "reprojected" /\ NoReshaping(model)) => result = data

\* a factory model re-projected: firstNotEmpty over the words example
C4_Witness ==
  /\ pc = "reprojected"
  /\ model = sampleWords4c
  /\ data = SampleWordsData
  /\ result = data

----------------------------------------------------------------------------
(* C5, C6 *)

\* projecting any element of array d against any candidate of array model m gives
\* a plain value or undefined: no merge function, no error
CandidatesArePlain(d, m) ==
  \A i \in 1..Len(d.v), j \in 1..Len(m.v) :
    projectAny(d.v[i], m.v[j]) = Undef \/ IsPlain(projectAny(d.v[i], m.v[j]))

\* the candidates that accept element e, by index
Accepting(e, candidates, tr) ==
  {j \in 1..Len(candidates) : Transformed(tr, projectAny(e, candidates[j])) # Undef}

\* what the first accepting candidate makes of element e; undefined when none accepts
Winner(e, candidates, tr) ==
  IF Accepting(e, candidates, tr) = {} THEN Undef
  ELSE Transformed(tr, projectAny(e,
         candidates[CHOOSE j \in Accepting(e, candidates, tr) :
                      \A k \in Accepting(e, candidates, tr) : j <= k]))

\* C5: with candidates [A, B] and no transform, an element that A accepts is
\* written as its projection against A, whatever B would make of it (B is not
\* tried): alone in its array it is the whole result, and with padding it stands
\* at its own position.
C5_FirstMatchWins ==
  (/\ pc \in {"projected", "called"}
   /\ transform = Undef
   /\ data.t = "array"
   /\ model.t = "array"
   /\ Len(model.v) = 2) =>
    /\ (Len(data.v) = 1 /\ IsPlain(projectAny(data.v[1], model.v[1]))) =>
         result = Arr(<<projectAny(data.v[1], model.v[1])>>)
    /\ (pad = Bool(TRUE) /\ CandidatesArePlain(data, model)) =>
         /\ result.t = "array"
         /\ Len(result.v) = Len(data.v)
         /\ \A i \in 1..Len(data.v) :
              (/\ projectAny(data.v[i], model.v[1]) # Undef
               /\ projectAny(data.v[i], model.v[2]) # Undef) =>
                result.v[i] = projectAny(data.v[i], model.v[1])

\* both {a:""} and {b:""} accept {a:"hi", b:0}, with different projections
C5_Witness ==
  /\ pc = "called"
  /\ transform = Undef
  /\ model = Arr(<<Obj(<< <<"a", Str("")>> >>), Obj(<< <<"b", Str("")>> >>)>>)
  /\ data = Arr(<<Obj(<< <<"a", Str("hi")>>, <<"b", Num(0)>> >>)>>)
  /\ projectAny(data.v[1], model.v[2]) = Obj(<<>>)
  /\ result = Arr(<<Obj(<< <<"a", Str("hi")>> >>)>>)

\* C6: with candidates that return plain values, projectArray's output is the
\* winning projections of the matched elements in input order; without padding
\* it is never longer than the input; with nullIfNotMatching true every
\* unmatched element gives one null at its position and the lengths are equal.
C6_ArrayOrderAndLength ==
  (/\ pc \in {"projected", "called"}
   /\ data.t = "array"
   /\ model.t = "array"
   /\ CandidatesArePlain(data, model)) =>
    LET winners == [i \in 1..Len(data.v) |-> Winner(data.v[i], model.v, transform)]
    IN  IF pad = Bool(TRUE)
          THEN /\ result = Arr([i \in 1..Len(data.v) |->
                                  IF winners[i] = Undef THEN Null ELSE winners[i]])
               /\ Len(result.v) = Len(data.v)
          ELSE /\ result = Arr(SelectSeq(winners, LAMBDA w : w # Undef))
               /\ Len(result.v) <= Len(data.v)

\* padding: an unmatched element gives the null at the head of an output as long
\* as the input, and the last element is matched
C6_Witness ==
  /\ pc = "called"
  /\ pad = Bool(TRUE)
  /\ data.t = "array"
  /\ model.t = "array"
  /\ Len(data.v) = MaxLen
  /\ CandidatesArePlain(data, model)
  /\ result.t = "array"
  /\ Len(result.v) = MaxLen
  /\ result.v[1] = Null
  /\ result.v[MaxLen] # Null

----------------------------------------------------------------------------
(* C7 *)

\* every key of out, at every nesting level an object model describes, is a key
\* of the model at that level
RECURSIVE KeysWithinModel(_, _)
KeysWithinModel(out, m) ==
  CASE out.t = "object" /\ m.t = "object" ->
         /\ KeySet(out) \subseteq KeySet(m)
         /\ \A k \in KeySet(out) : KeysWithinModel(Get(out, k), Get(m, k))
    [] out.t = "array" /\ m.t = "array" ->
         \A i \in 1..Len(out.v) : \E j \in 1..Len(m.v) : KeysWithinModel(out.v[i], m.v[j])
    [] m.t = "function" /\ m.v[1] \in {"makeMatch.object", "makeMatch.array",
                                       "makeMatch.notEmpty", "makeMatch.arrayTransformed"} ->
         KeysWithinModel(out, m.v[2])
    [] OTHER -> out.t \in {"object", "array"} => m.t = "function"

\* C7: for a model without merge-producing matchers (no flatten), the keys of
\* every object the projection builds are keys of the object model at that
\* nesting level.
C7_KeysFromModel ==
  (/\ pc = "projected"
   /\ ~UsesCode(model, "makeMatch.flatten")
   /\ ~IsErr(result)) =>
    KeysWithinModel(result, model)

\* a data key the model does not name is dropped
C7_Witness ==
  /\ pc = "projected"
  /\ model = Obj(<< <<"a", Str("")>> >>)
  /\ data = Obj(<< <<"a", Str("hi")>>, <<"b", Num(0)>> >>)
  /\ result = Obj(<< <<"a", Str("hi")>> >>)

----------------------------------------------------------------------------
(* C8, C9, C10 *)

\* m is makeMatch.flatten(M) for an object model M of primitive placeholders
IsFlattenOfPlain(m) ==
  /\ m.t = "function"
  /\ m.v[1] = "makeMatch.flatten"
  /\ IsPlainObjectModel(m.v[2])

\* the entries flatten writes for host key K from the projected sub-object sub
Prefixed(K, sub) == [i \in 1..Len(sub.v) |-> <<K \o "-" \o sub.v[i][1], sub.v[i][2]>>]

\* C8: a host whose only field is K: makeMatch.flatten(M) gets, for object data
\* d[K], exactly the entries "K-k": v of the projection of d[K] against M and no
\* key K; it stays empty, without error, when d[K] is not an object.  The Rommel
\* example gives {"character-name": "Rommel"} beside the host's other fields.
C8_FlattenUnderHost ==
  /\ (/\ pc = "projected"
      /\ model.t = "object"
      /\ Len(model.v) = 1
      /\ IsFlattenOfPlain(model.v[1][2])
      /\ data.t = "object"
      /\ HasKey(data, model.v[1][1])) =>
       IF Get(data, model.v[1][1]).t = "object"
         THEN result = Obj(Prefixed(model.v[1][1],
                                    projectObject(Get(data, model.v[1][1]),
                                                  model.v[1][2].v[2])))
         ELSE result = Obj(<<>>)
  /\ (pc = "projected" /\ model = sampleLocation1 /\ data = SampleRommelData) =>
       result = Obj(<< <<"character-name", Str("Rommel")>> >>)

\* C8 for the host keys that are not the empty string
FlattenUnderNamedHost ==
  \/ pc = "projected" /\ model.t = "object" /\ Len(model.v) = 1 /\ model.v[1][1] = ""
  \/ C8_FlattenUnderHost

\* C9: a flatten merge function invoked against an object-target writes every
\* (k, v) of the projected sub-object under "hostKey-k" and raises no error,
\* whatever string the host key is, the empty string included.
C9_FlattenAnyHostKey ==
  (/\ pc = "projected"
   /\ model.t = "object"
   /\ \A i \in 1..Len(model.v) : IsFlattenOfPlain(model.v[i][2])
   /\ data.t = "object") =>
    /\ ~IsErr(result)
    /\ \A i \in 1..Len(model.v) :
         Get(data, model.v[i][1]).t = "object" =>
           \A e \in {Prefixed(model.v[i][1],
                              projectObject(Get(data, model.v[i][1]),
                                            model.v[i][2].v[2]))[n] :
                       n \in 1..Len(projectObject(Get(data, model.v[i][1]),
                                                  model.v[i][2].v[2]).v)} :
             Get(result, e[1]) = e[2]

\* C9 for the host keys that are not the empty string
FlattenNamedHostKey ==
  \/ /\ pc = "projected"
     /\ model.t = "object"
     /\ \E i \in 1..Len(model.v) : model.v[i][1] = ""
  \/ C9_FlattenAnyHostKey

\* a merge function wins for some element of array d under the candidates of
\* array model m, and no earlier element raised
MergeWinsInArray(d, m) ==
  /\ d.t = "array"
  /\ m.t = "array"
  /\ \E i \in 1..Len(d.v) :
       /\ Winner(d.v[i], m.v, Undef).t = "function"
       /\ \A k \in 1..(i - 1) : ~IsErr(Winner(d.v[k], m.v, Undef))

\* C10: when makeMatch.flatten(M) is a candidate of an array model and wins for an
\* object element, the projection raises the target-shape error and returns
\* nothing, also when the array model is a field of an object model.
C10_FlattenNeedsObjectHost ==
  pc = "projected" =>
    /\ MergeWinsInArray(data, model) => result = Err(MsgFlattenHost)
    /\ (/\ model.t = "object"
        /\ Len(model.v) = 1
        /\ data.t = "object"
        /\ MergeWinsInArray(Get(data, model.v[1][1]), model.v[1][2])) =>
         result = Err(MsgFlattenHost)

\* flatten wins for the second element, after a first element was appended
C10_Witness ==
  /\ pc = "projected"
  /\ model = Arr(<<Str(""), makeMatch_flatten(Obj(<< <<"a", Str("")>> >>))>>)
  /\ data = Arr(<<Str("hi"), Obj(<< <<"a", Str("hi")>>, <<"b", Num(0)>> >>)>>)
  /\ MergeWinsInArray(data, model)
  /\ result = Err(MsgFlattenHost)

----------------------------------------------------------------------------
(* C11 *)

\* C11: bindMergeFunction(umf, value) raises and returns no function when value
\* is undefined or a function; for every other value it returns a function, and
\* every invocation of that function on a target args is umf(args, value) for
\* the value given at bind time.
C11_BindMergeFunction ==
  /\ pc = "bound" =>
       IF data = Undef \/ data.t = "function"
         THEN /\ result \in {Err(MsgBindUndefined), Err(MsgBindFunction)}
              /\ boundMerge = Undef
         ELSE /\ result.t = "function"
              /\ boundMerge = result
  /\ pc = "invoked" =>
       /\ data # Undef
       /\ data.t # "function"
       /\ result = unboundMerge_flatten(target, data)

\* the bound function is invoked on a host that already has the key a-a, and
\* writes the two entries of the value bound
C11_Witness ==
  /\ pc = "invoked"
  /\ data = Obj(<< <<"a", Str("hi")>>, <<"b", Num(0)>> >>)
  /\ target = ObjectTarget(Obj(<< <<"a-a", Num(MaxNum)>> >>), "a")
  /\ result = Obj(<< <<"a-a", Str("hi")>>, <<"a-b", Num(0)>> >>)

----------------------------------------------------------------------------
(* C12 *)

\* C12: whenever projectToModel(data, model) returns, what it returns is
\* undefined or a plain JSON value, never a bound merge function, also when the
\* root model is a merge-producing matcher such as makeMatch.flatten(M).
C12_EntryReturnsValue ==
  (pc \in {"projected", "reprojected"} /\ ~IsErr(result)) =>
    (result = Undef \/ IsPlain(result))

\* below the root a merge function is consumed by the projector that receives it:
\* a function comes out of the entry point only when the root matcher made it
MergeFunctionOnlyFromRoot ==
  (pc = "projected" /\ result.t = "function") =>
    /\ model.t = "function"
    /\ UsesCode(model, "makeMatch.flatten")

----------------------------------------------------------------------------
(* C13 *)

\* an undefined sub-model never matches and never raises: the field of an object
\* model is left out, the candidate of an array model accepts no element
UndefinedSubModelFails ==
  pc = "projected" =>
    /\ (/\ model.t = "object"
        /\ data.t = "object"
        /\ \A i \in 1..Len(model.v) : model.v[i][2] = Undef) => result = Obj(<<>>)
    /\ (model = Arr(<<Undef>>) /\ data.t = "array") => result = Arr(<<>>)

\* C13: an undefined model always fails to match, as match.fail does: projecting
\* any data against it yields undefined and raises nothing, as a field's
\* sub-model, as an array candidate, and as the model given to
\* projectToModel(data, model) itself.
C13_UndefinedModelFails ==
  /\ UndefinedSubModelFails
  /\ (pc = "projected" /\ model = Undef) => result = Undef

----------------------------------------------------------------------------
(* C14 *)

\* C14: the literal model null is match.null: projecting d against it gives null
\* when d is null and undefined otherwise, and never raises, as the root model
\* and as the sub-model of an object model's only field.
C14_NullModel ==
  pc = "projected" =>
    /\ model = Null =>
         /\ result = (IF data = Null THEN Null ELSE Undef)
         /\ result = match_null(data)
    /\ (/\ model.t = "object"
        /\ Len(model.v) = 1
        /\ model.v[1][2] = Null
        /\ data.t = "object") =>
         result = (IF HasKey(data, model.v[1][1]) /\ Get(data, model.v[1][1]) = Null
                     THEN Obj(<< <<model.v[1][1], Null>> >>)
                     ELSE Obj(<<>>))

\* null is kept under the null model, at the root and in a field
C14_Witness ==
  /\ pc = "projected"
  /\ \/ model = Null /\ data = Null /\ result = Null
     \/ /\ model = Obj(<< <<"a", Null>> >>)
        /\ data = Obj(<< <<"a", Null>> >>)
        /\ result = data

----------------------------------------------------------------------------
(* C15 *)

\* what C15 says of a call projectToModel(data, library, name)
NamedProjectionAsStated ==
  IF HasKey(model, nameGiven.v)
    THEN result = projectToModel(data, Get(model, nameGiven.v), Undef)
    ELSE result = Err(MsgUnknownModel(nameGiven.v, Join(Keys(model), ", ")))

\* C15: projectToModel(data, library, name) with a name for which the library
\* has no entry raises the unknown-model error, naming the name asked for and
\* the names known, and projects nothing; with a name that has an entry it
\* returns what projecting data against library[name] returns.
C15_NamedProjection == pc = "named" => NamedProjectionAsStated

\* the same, for the names Object.prototype does not define
NamedProjectionOfOwnNames ==
  (pc = "named" /\ ~HasKey(ObjectPrototype, nameGiven.v)) => NamedProjectionAsStated

----------------------------------------------------------------------------
(* C16 *)

\* C16: valueTransforms.oneValue(value) is the only element of an array of
\* length 1, the only property's value of an object with one key, the value
\* itself for a string, number, boolean or null, and undefined in every other
\* case: an empty or longer array, an empty or larger object, undefined, a
\* function.  {en:"hi"} gives "hi" and {en:"hi", nl:"hoi"} gives undefined.
C16_OneValue ==
  (pc = "transformed" /\ transform = Fn(<<"valueTransforms.oneValue">>)) =>
    /\ (data.t = "array" /\ Len(data.v) = 1) => result = data.v[1]
    /\ (data.t = "array" /\ Len(data.v) # 1) => result = Undef
    /\ (data.t = "object" /\ Len(data.v) = 1) => result = data.v[1][2]
    /\ (data.t = "object" /\ Len(data.v) # 1) => result = Undef
    /\ data.t \in {"string", "number", "boolean", "null"} => result = data
    /\ data.t \in {"undefined", "function"} => result = Undef
    /\ data = Obj(<< <<"en", Str("hi")>> >>) => result = Str("hi")
    /\ data = Obj(<< <<"en", Str("hi")>>, <<"nl", Str("hoi")>> >>) => result = Undef

\* the example with two keys, and an array of the longest length
C16_Witness ==
  /\ pc = "transformed"
  /\ transform = Fn(<<"valueTransforms.oneValue">>)
  /\ result = Undef
  /\ \/ data = Obj(<< <<"en", Str("hi")>>, <<"nl", Str("hoi")>> >>)
     \/ data.t = "array" /\ Len(data.v) = MaxLen

----------------------------------------------------------------------------
(* C17, C18 *)

\* the objects and arrays that existed before the call
IsInput(x) == "ref" \in DOMAIN x

\* C17: a projection's output tree is fresh: no object or array reachable from
\* the result is an object or array of the input data, for every model,
\* match.any included.
C17_FreshOutput ==
  (pc = "projectedRefs" /\ ~IsErr(result)) =>
    \A x \in Containers(result) : ~IsInput(x)

\* the output is fresh under every model that does not use match.any
FreshOutputWithoutAny ==
  (pc = "projectedRefs" /\ ~IsErr(result) /\ ~UsesCode(model, "match.any")) =>
    \A x \in Containers(result) : ~IsInput(x)

----------------------------------------------------------------------------
(* C19 *)

IsFirstMatch(m) == m.t = "function" /\ m.v[1] = "makeMatch.firstMatch"

\* C19: whenever makeMatch.firstMatch(models, fn)(data) returns, it returns what
\* the first candidate of models, in listed order, makes of data after fn (the
\* projection itself without fn) that is not undefined, and undefined when no
\* candidate makes such a value; a value that is null, 0, "" or false is
\* returned as it is.  Checked for firstMatch as the root model and as the model
\* of an object model's only field (the sampleName models).
C19_FirstMatch ==
  (pc = "projected" /\ ~IsErr(result)) =>
    /\ IsFirstMatch(model) => result = Winner(data, model.v[2].v, model.v[3])
    /\ (/\ model.t = "object"
        /\ Len(model.v) = 1
        /\ IsFirstMatch(model.v[1][2])
        /\ data.t = "object"
        /\ HasKey(data, model.v[1][1])) =>
         Get(result, model.v[1][1])
           = Winner(Get(data, model.v[1][1]), model.v[1][2].v[2].v, model.v[1][2].v[3])

\* the second candidate is the first to accept, and what it gives is falsy
C19_Witness ==
  /\ pc = "projected"
  /\ IsFirstMatch(model)
  /\ Len(model.v[2].v) = 2
  /\ Accepting(data, model.v[2].v, model.v[3]) = {2}
  /\ result \in {Num(0), Str("")}

----------------------------------------------------------------------------
(* C20 *)

\* the places of the -f options in an option list, and the k-th of them
FilePlaces(os) == {i \in 1..Len(os) : os[i].opt = "f"}

KthFilePlace(os, k) ==
  CHOOSE i \in FilePlaces(os) : Cardinality({j \in FilePlaces(os) : j < i}) = k - 1

\* the name given by the nearest -m before place i, "default" when there is none
NearestName(os, i) ==
  LET places == {j \in 1..(i - 1) : os[j].opt = "m"}
  IN  IF places = {} THEN DefaultName
      ELSE os[CHOOSE j \in places : \A k \in places : k <= j].a

\* C20: parseArguments returns one transformation per -f option, in argument
\* order; each has the name given by the nearest -m before its -f, or "default"
\* when no -m precedes it, so a -m after a -f leaves the transformations before
\* it as they are.
C20_ParseArguments ==
  pc = "parsedOptions" =>
    /\ ~IsErr(transformations)
    /\ Len(transformations.v) = Cardinality(FilePlaces(opts))
    /\ \A k \in 1..Len(transformations.v) :
         /\ transformations.v[k].inputFile = opts[KthFilePlace(opts, k)].a
         /\ transformations.v[k].modelName = NearestName(opts, KthFilePlace(opts, k))

\* -f, -m name, -f: the first transformation keeps "default", the second has the name
C20_Witness ==
  /\ pc = "parsedOptions"
  /\ Len(opts) = 3
  /\ opts[1].opt = "f"
  /\ opts[2].opt = "m"
  /\ opts[3].opt = "f"
  /\ Len(transformations.v) = 2
  /\ transformations.v[1].modelName = DefaultName
  /\ transformations.v[2].modelName = opts[2].a

----------------------------------------------------------------------------
(* C21 *)

\* the last call of saveJson, and whether it returned
LastSave == saved[Len(saved)]
Returned(c) == c.thrown = ""

\* C21: when saveJson(f, d) has returned, f holds d (its JSON text when d is no
\* string); if f existed before with content c, f.bak holds c, whatever f.bak
\* held; if f did not exist, f.bak is as it was.  So after two saves to the
\* same f in a row, f holds the later content and f.bak the earlier one.
C21_BackupRotation ==
  (pc = "saved" /\ Returned(LastSave)) =>
    LET f == LastSave.file
        bak == LastSave.file \o BakSuffix
    IN  /\ existsSync(files, f)
        /\ files[f] = SavedText(LastSave.data)
        /\ existsSync(filesBefore, f) =>
             existsSync(files, bak) /\ files[bak] = filesBefore[f]
        /\ ~existsSync(filesBefore, f) =>
             /\ existsSync(files, bak) = existsSync(filesBefore, bak)
             /\ existsSync(files, bak) => files[bak] = filesBefore[bak]
        /\ (/\ Len(saved) >= 2
            /\ saved[Len(saved) - 1].file = f
            /\ Returned(saved[Len(saved) - 1])) =>
             /\ existsSync(files, bak)
             /\ files[bak] = SavedText(saved[Len(saved) - 1].data)

\* the last of MaxSaves saves to o.j, with an older backup discarded on the way
C21_Witness ==
  /\ pc = "saved"
  /\ Len(saved) = MaxSaves
  /\ \A i \in 1..Len(saved) : saved[i].file = OutJ /\ Returned(saved[i])
  /\ existsSync(filesBefore, OutJ \o BakSuffix)
  /\ files[OutJ \o BakSuffix] # filesBefore[OutJ \o BakSuffix]
  /\ files[OutJ] = SavedText(LastSave.data)

----------------------------------------------------------------------------
(* C22: falsy values are present values                                    *)

\* the data object holds a falsy value (0, "", false or null) under key
FalsyAt(d, key) == HasKey(d, key) /\ Get(d, key) \in FalsyVals

\* the call projected an object with falsy fields against a one-field model
\* whose placeholder is a literal or null
FalsyFieldProjected ==
  /\ pc = "projected"
  /\ data.t = "object" /\ model.t = "object" /\ Len(model.v) = 1
  /\ \A i \in 1..Len(data.v) : data.v[i][2] \in FalsyVals
  /\ model.v[1][2].t \in {"number", "string", "boolean", "null"}

\* the data and the model of the example: {n:0, s:"", b:false, z:null}
\* against {n:0, s:"", b:true, z:null}
FalsyExample ==
  /\ pc = "projected"
  /\ data = Obj(<< <<"n", Num(0)>>, <<"s", Str("")>>, <<"b", Bool(FALSE)>>, <<"z", Null>> >>)
  /\ model = Obj(<< <<"n", Num(0)>>, <<"s", Str("")>>, <<"b", Bool(TRUE)>>, <<"z", Null>> >>)

\* C22: a key the data holds with a falsy value (0, "", false, null) is
\* present: the object projector projects the value against the sub-model and
\* writes it under the key when its kind is the sub-model's, and writes
\* nothing for it otherwise; the example {n:0, s:"", b:false, z:null} against
\* {n:0, s:"", b:true, z:null} yields the data unchanged; a key the data has
\* no value for is skipped, whatever the sub-model (match.any included).
C22_FalsyIsPresent ==
  /\ FalsyFieldProjected =>
       result = IF /\ FalsyAt(data, model.v[1][1])
                   /\ typeofEx(Get(data, model.v[1][1])) = typeofEx(model.v[1][2])
                  THEN Obj(<< <<model.v[1][1], Get(data, model.v[1][1])>> >>)
                  ELSE Obj(<<>>)
  /\ FalsyExample => result = data
  /\ (/\ pc = "projected" /\ data \in FalsyData
      /\ model.t = "object" /\ Len(model.v) = 1
      /\ ~HasKey(data, model.v[1][1])) => result = Obj(<<>>)
  /\ (/\ pc = "projected" /\ data \in FalsyData
      /\ model.t = "object" /\ Len(model.v) = 1
      /\ model.v[1][2] = Fn(<<"match.any">>)
      /\ HasKey(data, model.v[1][1])) =>
        result = Obj(<< <<model.v[1][1], Get(data, model.v[1][1])>> >>)

\* the example was projected and came back whole, false and null included
C22_Witness ==
  /\ FalsyExample
  /\ HasKey(result, "b") /\ Get(result, "b") = Bool(FALSE)
  /\ HasKey(result, "z") /\ Get(result, "z") = Null

----------------------------------------------------------------------------
(* C23: the object projector's check of its model                          *)

\* m is no non-null, non-array object
NotAnObjectModel(m) == m = Null \/ TypeOf(m) # "object" \/ IsArray(m)

\* the call handed its data to the object projector with a model that is no
\* object, through makeMatch.object(m) or makeMatch.flatten(m)
BadObjectModelProjected ==
  /\ pc = "projected"
  /\ model.t = "function"
  /\ model.v[1] \in {"makeMatch.object", "makeMatch.flatten"}
  /\ NotAnObjectModel(model.v[2])

\* C23: the object projector raises "Expecting a model that is an object"
\* whenever the model handed to it (via makeMatch.object(model) or
\* makeMatch.flatten(model)) is not a non-null, non-array object, for every
\* data value, data that is no object included.
C23_ModelMustBeObject ==
  BadObjectModelProjected => result = Err(MsgModelNotObject)

\* the error is raised for every data that is a non-null, non-array object; for
\* any other data the call returns undefined and the model is never looked at
ModelCheckedAfterData ==
  BadObjectModelProjected =>
    result = IF data.t = "object" THEN Err(MsgModelNotObject) ELSE Undef

----------------------------------------------------------------------------
(* C24: functions are invoked, never stored                                *)

\* x is a function or holds one at some depth
RECURSIVE HoldsFunction(_)
HoldsFunction(x) ==
  CASE x.t = "function" -> TRUE
    [] x.t = "object" -> \E i \in 1..Len(x.v) : HoldsFunction(x.v[i][2])
    [] x.t = "array" -> \E i \in 1..Len(x.v) : HoldsFunction(x.v[i])
    [] OTHER -> FALSE

\* the call returned a tree: an object or an array
TreeReturned ==
  /\ pc \in {"projected", "reprojected", "called", "named"}
  /\ result.t \in {"object", "array"}

\* field i of the object model is makeMatch.flatten(M) under a key that is not
\* empty, and the data has an object there
FlattenFieldMatched(i) ==
  /\ IsFlattenOfPlain(model.v[i][2])
  /\ model.v[i][1] # ""
  /\ data.t = "object"
  /\ HasKey(data, model.v[i][1])
  /\ Get(data, model.v[i][1]).t = "object"

\* C24: in the object and array projectors a match result that is a function
\* is never stored: it is invoked with the host instead of being assigned or
\* appended.  A flatten field of an object model leaves every entry of its
\* projected sub-object in the result, under "K-k"; a flatten candidate
\* that wins for an array element is invoked with the array host, which it
\* refuses.  Hence no object or array a call returns holds a function at any
\* depth.
C24_FunctionsNeverStored ==
  /\ TreeReturned => ~HoldsFunction(result)
  /\ (pc = "projected" /\ model.t = "object" /\ ~IsErr(result)) =>
       \A i \in 1..Len(model.v) :
         FlattenFieldMatched(i) =>
           /\ result.t = "object"
           /\ \A k \in KeySet(projectObject(Get(data, model.v[i][1]), model.v[i][2].v[2])) :
                HasKey(result, model.v[i][1] \o "-" \o k)
  /\ (/\ pc = "projected" /\ model.t = "array" /\ Len(model.v) = 1
      /\ IsFlattenOfPlain(model.v[1])
      /\ data.t = "array"
      /\ \E i \in 1..Len(data.v) : data.v[i].t = "object") =>
        result = Err(MsgFlattenHost)

\* a flatten field was invoked against the result object: its entry is there
\* under "a-a" and no function is
C24_Witness ==
  /\ pc = "projected"
  /\ model.t = "object"
  /\ \E i \in 1..Len(model.v) : FlattenFieldMatched(i) /\ model.v[i][1] = "a"
  /\ result.t = "object"
  /\ HasKey(result, "a-a")
  /\ ~HasKey(result, "a")
  /\ ~HoldsFunction(result)

----------------------------------------------------------------------------
(* C25: the transform is applied before the test                           *)

\* a candidate that is a primitive placeholder or a plain object model
IsPlainCandidate(m) == IsPrimitivePlaceholder(m) \/ IsPlainObjectModel(m)

\* the model is makeMatch.arrayTransformed(candidates, transform) with a
\* transform and plain candidates
TransformedArrayProjected ==
  /\ pc = "projected"
  /\ model.t = "function"
  /\ model.v[1] = "makeMatch.arrayTransformed"
  /\ model.v[3] # Undef
  /\ \A j \in 1..Len(model.v[2].v) : IsPlainCandidate(model.v[2].v[j])

\* element e matches candidate c1 structurally, the transform rejects that
\* projection, and it accepts the projection against c2
RejectedThenAccepted(e, c1, c2, tr) ==
  /\ projectAny(e, c1) # Undef
  /\ CallTransform(tr, projectAny(e, c1)) = Undef
  /\ CallTransform(tr, projectAny(e, c2)) # Undef

\* a document with a Dutch word and a word in a language the models do not name
DutchWordsData ==
  Obj(<< <<"words", Arr(<<Obj(<< <<"nl", Str("hoi")>> >>),
                          Obj(<< <<"fr", Str("salut")>> >>)>>)>> >>)

\* C25: a transform supplied to array projection is applied to every
\* candidate's projection before the not-undefined test: an element's output is
\* the transformed projection of the first candidate whose transformed
\* projection is not undefined, and an element with no such candidate is
\* dropped; a candidate that matches structurally but whose transformed result
\* is undefined is passed over for the next one.  With
\* makeMatch.firstNotEmpty([{en:""},{nl:""}]) the element {nl:"hoi"} gives
\* {nl:"hoi"}, not {}, and an element with neither key is dropped;
\* makeMatch.arrayTransformed(model, valueTransforms.notEmpty) gives what
\* makeMatch.firstNotEmpty(model) gives.
C25_TransformBeforeTest ==
  /\ (TransformedArrayProjected /\ data.t = "array") =>
       /\ result = Arr(SelectSeq([i \in 1..Len(data.v) |->
                                    Winner(data.v[i], model.v[2].v, model.v[3])],
                                 LAMBDA w : w # Undef))
       /\ (/\ Len(data.v) = 1 /\ Len(model.v[2].v) = 2
           /\ RejectedThenAccepted(data.v[1], model.v[2].v[1], model.v[2].v[2], model.v[3])) =>
            result = Arr(<<CallTransform(model.v[3], projectAny(data.v[1], model.v[2].v[2]))>>)
  /\ (pc = "projected" /\ model \in {sampleWords4c, sampleWords4d} /\ data = DutchWordsData) =>
       result = Obj(<< <<"words", Arr(<<Obj(<< <<"nl", Str("hoi")>> >>)>>)>> >>)
  /\ (/\ pc = "projected" /\ model.t = "function"
      /\ model.v[1] = "makeMatch.arrayTransformed"
      /\ model.v[3] = Fn(<<"valueTransforms.notEmpty">>)) =>
        result = Call(makeMatch_firstNotEmpty(model.v[2]), data)

\* {b:"hi"} matches {a:""} as {}, which notEmpty rejects, and {b:""} is tried
C25_Witness ==
  /\ TransformedArrayProjected
  /\ model.v[3] = Fn(<<"valueTransforms.notEmpty">>)
  /\ data = Arr(<<Obj(<< <<"b", Str("hi")>> >>)>>)
  /\ Len(model.v[2].v) = 2
  /\ RejectedThenAccepted(data.v[1], model.v[2].v[1], model.v[2].v[2], model.v[3])
  /\ result = Arr(<<Obj(<< <<"b", Str("hi")>> >>)>>)

----------------------------------------------------------------------------
(* C26: a bound merge function is invoked at most once, by its own call    *)

\* the events of the log that invoke function n
InvocationsOf(n) == {i \in 1..Len(mergeLog) : mergeLog[i] = <<"invoke", n>>}

\* C26: every bound merge function created during a projection is invoked at
\* most once, and only during the projection call that created it: each
\* invocation in a call's log is of a function the same call bound before, no
\* function is invoked twice, and a function the call returns to its caller
\* was bound by the call and invoked by nobody.  No step after the return of a
\* projection invokes anything.
C26_MergeInvokedOnce ==
  /\ \A i \in 1..Len(mergeLog) :
       mergeLog[i][1] = "invoke" =>
         /\ \E j \in 1..(i - 1) : mergeLog[j] = <<"bind", mergeLog[i][2]>>
         /\ InvocationsOf(mergeLog[i][2]) = {i}
  /\ \A n \in 1..BindsIn(mergeLog) : Cardinality(InvocationsOf(n)) <= 1
  /\ (/\ pc \in {"projected", "reprojected", "named", "projectedRefs"}
      /\ TypeOf(result) = "function"
      /\ result.v[1] = "boundMerge") =>
       /\ mergeLog # <<>>
       /\ mergeLog[Len(mergeLog)][1] = "bind"
       /\ InvocationsOf(mergeLog[Len(mergeLog)][2]) = {}
  /\ pc \in {"transformed", "bound", "invoked"} => mergeLog = <<>>

\* a projection bound two functions and invoked each of them once
C26_Witness ==
  /\ pc = "projected"
  /\ ~IsErr(result)
  /\ BindsIn(mergeLog) = 2
  /\ Cardinality(InvocationsOf(1)) = 1
  /\ Cardinality(InvocationsOf(2)) = 1

----------------------------------------------------------------------------
(* C27: errors are never turned into a non-match                           *)

\* trying the candidates on element e ends in an error: the first candidate
\* whose result is not undefined raises, or wins with a merge function, which
\* the array host makes raise
ElementRaises(e, candidates, tr) ==
  LET winner == Winner(e, candidates, tr)
  IN  IsErr(winner) \/ TypeOf(winner) = "function"

\* the error element e ends in
ElementError(e, candidates, tr) ==
  IF IsErr(Winner(e, candidates, tr)) THEN Winner(e, candidates, tr)
  ELSE Err(MsgFlattenHost)

\* the elements of d that end in an error, by index
RaisingElements(d, candidates, tr) ==
  {i \in 1..Len(d.v) : ElementRaises(d.v[i], candidates, tr)}

\* the error of the first element of d that ends in one
FirstError(d, candidates, tr) ==
  LET raising == RaisingElements(d, candidates, tr)
  IN  ElementError(d.v[CHOOSE i \in raising : \A k \in raising : i <= k],
                   candidates, tr)

\* C27: errors are never turned into a non-match.  When projecting an array
\* element against a candidate raises (a model that is no object, a merge
\* function on an array host, an unsupported model kind), the array projector
\* does not go on to the next candidate and neither drops nor pads the
\* element: the call raises that error, from the root and from under an object
\* field alike, and returns no partial result.  A candidate after the winning
\* one is not tried, so it cannot raise.
C27_ErrorsPropagate ==
  /\ (/\ pc \in {"projected", "called"}
      /\ data.t = "array" /\ model.t = "array"
      /\ IsErr(result) \/ RaisingElements(data, model.v, transform) # {}) =>
       /\ RaisingElements(data, model.v, transform) # {}
       /\ result = FirstError(data, model.v, transform)
  /\ (/\ pc \in {"projected", "called"}
      /\ data.t = "array" /\ model.t = "array" /\ Len(data.v) = 1 /\ Len(model.v) = 2
      /\ transform = Undef
      /\ IsErr(projectAny(data.v[1], model.v[1]))) =>
       result = projectAny(data.v[1], model.v[1])
  /\ (/\ pc = "projected"
      /\ data.t = "object" /\ model.t = "object" /\ Len(model.v) = 1
      /\ HasKey(data, model.v[1][1])
      /\ Get(data, model.v[1][1]).t = "array" /\ model.v[1][2].t = "array"
      /\ RaisingElements(Get(data, model.v[1][1]), model.v[1][2].v, Undef) # {}) =>
       result = FirstError(Get(data, model.v[1][1]), model.v[1][2].v, Undef)

\* "hi" is matched and appended; for the number the string placeholder does not
\* match and the next candidate, an unsupported model, raises: the call raises
\* and the array holding "hi" is not returned
C27_Witness ==
  /\ pc = "projected"
  /\ data = Arr(<<Str("hi"), Num(MaxNum)>>)
  /\ model = Arr(<<Str(""), BigIntModel>>)
  /\ result = Err(MsgUnexpectedModel("bigint"))

----------------------------------------------------------------------------
(* C28: value transforms take a merge function for a non-match             *)

\* m hands the result of makeMatch.flatten(M), M a plain object model, to a
\* value transform: makeMatch.notEmpty(flatten(M)), or flatten(M) as the first
\* candidate of an array or first-match matcher with a transform
FlattenUnderTransform(m) ==
  /\ m.t = "function"
  /\ \/ m.v[1] = "makeMatch.notEmpty" /\ IsFlattenOfPlain(m.v[2])
     \/ /\ m.v[1] \in {"makeMatch.arrayTransformed", "makeMatch.firstMatch"}
        /\ m.v[3] # Undef
        /\ m.v[2].t = "array" /\ Len(m.v[2].v) >= 1
        /\ IsFlattenOfPlain(m.v[2].v[1])

\* m without its flatten: a matcher that never matches for notEmpty, and the
\* same matcher over the remaining candidates otherwise
WithoutFlatten(m) ==
  IF m.v[1] = "makeMatch.notEmpty" THEN Fn(<<"match.fail">>)
  ELSE Fn(<<m.v[1], Arr(Tail(m.v[2].v)), m.v[3]>>)

\* no event of the log invokes a function
NothingInvoked == \A i \in 1..Len(mergeLog) : mergeLog[i][1] # "invoke"

\* C28: value transforms treat a bound merge function as a non-match:
\* valueTransforms.notEmpty and valueTransforms.oneValue return undefined for a
\* function argument, so makeMatch.notEmpty(makeMatch.flatten(M)), and
\* makeMatch.flatten(M) as a candidate of makeMatch.firstNotEmpty or
\* makeMatch.firstOneValue, never match any data: the result is what the model
\* without the flatten gives, at the root and under an object field, the merge
\* function is never invoked, nothing is written to the host and no error is
\* raised.
C28_TransformDropsMerge ==
  /\ (pc = "transformed" /\ TypeOf(data) = "function") => result = Undef
  /\ (pc = "projected" /\ FlattenUnderTransform(model)) =>
       /\ result = projectAny(data, WithoutFlatten(model))
       /\ ~IsErr(result)
       /\ NothingInvoked
       /\ model.v[1] = "makeMatch.notEmpty" => result = Undef
  /\ (/\ pc = "projected" /\ model.t = "object" /\ Len(model.v) = 1
      /\ FlattenUnderTransform(model.v[1][2])) =>
       /\ result = projectAny(data, Obj(<< <<model.v[1][1], WithoutFlatten(model.v[1][2])>> >>))
       /\ ~IsErr(result)
       /\ NothingInvoked
       /\ (data.t = "object" /\ model.v[1][2].v[1] = "makeMatch.notEmpty") =>
            result = Obj(<<>>)

\* flatten projected the object under "a" and bound a merge function, notEmpty
\* dropped it, and the host stayed empty
C28_Witness ==
  /\ pc = "projected"
  /\ model.t = "object" /\ Len(model.v) = 1
  /\ model.v[1][1] = "a"
  /\ FlattenUnderTransform(model.v[1][2])
  /\ model.v[1][2].v[1] = "makeMatch.notEmpty"
  /\ data = Obj(<< <<"a", Obj(<< <<"a", Str("hi")>>, <<"b", Num(0)>> >>)>> >>)
  /\ mergeLog = <<<<"bind", 1>>>>
  /\ result = Obj(<<>>)

----------------------------------------------------------------------------
(* C29: the order of a run                                                 *)

\* the library has an entry of its own under the name, and the entry is truthy
OwnEntry(name) ==
  /\ HasKey(modelLibrary, StringOf(ToText(name)))
  /\ ~Falsy(Get(modelLibrary, StringOf(ToText(name))))

\* modelLibrary[name] is truthy, entries inherited from Object.prototype included
LookedUp(name) == ~Falsy(GetProp(modelLibrary, StringOf(ToText(name))))

\* the events of the k-th transformation, in the order of the run
EventsOf(k) == SelectSeq(runEvents, LAMBDA e : e[2] = k)

\* a run with arguments that parse: the events follow the order of the
\* transformations; a transformation whose name has no entry only gets skipped;
\* one whose name has an entry is read first and then printed or written, unless
\* it raises; and a run that raises nothing deals with every transformation
RunInOrder(Entry(_)) ==
  /\ \A i, j \in 1..Len(runEvents) : i < j => runEvents[i][2] <= runEvents[j][2]
  /\ \A k \in 1..Len(transformations.v) :
       IF Entry(transformations.v[k].modelName)
         THEN /\ EventsOf(k) \in {<<>>, <<<<"read", k>>>>,
                                  <<<<"read", k>>, <<"print", k>>>>,
                                  <<<<"read", k>>, <<"write", k>>>>}
              /\ runThrown = "" => Len(EventsOf(k)) = 2
         ELSE /\ EventsOf(k) \in {<<>>, <<<<"skip", k>>>>}
              /\ runThrown = "" => EventsOf(k) = <<<<"skip", k>>>>
  /\ (\A i \in 1..Len(runEvents) : runEvents[i][1] \in {"skip", "read", "print", "usage"}) =>
       files = filesBefore

\* C29: runTransformApplication processes the parsed transformations strictly
\* in argument order; a transformation whose model name has no (truthy) entry
\* in the model library is skipped without reading its input file or writing
\* any output, and the later transformations are still processed; all
\* arguments are parsed before the first file is read, so an argument error
\* anywhere means that no file is read or written.
C29_RunInOrder ==
  pc = "ran" =>
    IF IsErr(transformations)
      THEN runEvents = <<>> /\ files = filesBefore /\ runThrown = transformations.v
      ELSE RunInOrder(OwnEntry)

\* C29 with modelLibrary[modelName] being truthy in place of the library having
\* an entry: what the run does for every name
RunInOrderOfLookups ==
  pc = "ran" =>
    IF IsErr(transformations)
      THEN runEvents = <<>> /\ files = filesBefore /\ runThrown = transformations.v
      ELSE RunInOrder(LookedUp)

\* a run whose first transformation is skipped and whose second is processed
SkippedThenProcessed ==
  /\ pc = "ran"
  /\ ~IsErr(transformations)
  /\ runEvents = <<<<"skip", 1>>, <<"read", 2>>, <<"write", 2>>>>
  /\ runThrown = ""
  /\ files # filesBefore

\* a run that read a file for the name "constructor"
ConstructorProcessed ==
  /\ pc = "ran"
  /\ ~IsErr(transformations)
  /\ Len(transformations.v) = 1
  /\ transformations.v[1].modelName = ConstructorName
  /\ runEvents = <<<<"read", 1>>, <<"write", 1>>>>

\* a run with an argument error after the options of a file that is there
ArgumentErrorAfterFile ==
  /\ pc = "ran"
  /\ IsErr(transformations)
  /\ Len(opts) = MaxRunOptions
  /\ opts[1].name = DefaultName
  /\ opts[1].file.a.v \in DOMAIN filesBefore

----------------------------------------------------------------------------
(* C30: the two leading entries of process.argv                            *)

\* C30: parseArguments ignores the two leading entries of process.argv: for
\* every interpreter path p, script path s and option list opts,
\* parseArguments([p, s, ...opts]) returns the transformations
\* parseArguments(opts) returns and raises no "Unexpected argument" error for p
\* or s.
C30_ArgvIgnored ==
  pc = "parsedArgv" =>
    /\ transformations = parseArguments(OptionListArgs(opts))
    /\ transformations # Err(MsgUnexpectedArgument(argv[1]))
    /\ transformations # Err(MsgUnexpectedArgument(argv[2]))

\* C30 for the interpreter paths that end in "node.exe"
ArgvIgnoredForNodeExe ==
  (pc = "parsedArgv" /\ EndsWith(argv[1].v, NodeExe)) =>
    /\ transformations = parseArguments(OptionListArgs(opts))
    /\ ~IsErr(transformations)

\* the interpreter's path does not end in "node.exe" and the call raised for it
ArgvRefused ==
  /\ pc = "parsedArgv"
  /\ ~EndsWith(argv[1].v, NodeExe)
  /\ Len(opts) = 1
  /\ transformations = Err("Unexpected argument \"/node\"; expecting \"-f\" or \"-m\"")

====
